---- MODULE Spec2Model ----
(***************************************************************************)
(* Model of the sendly-go request executor (Client.request, doRequest,     *)
(* handleErrorResponse), the error taxonomy and MessagesService.Send.      *)
(*                                                                         *)
(* One behaviour of Spec is one client (its MaxRetries fixed by NewClient  *)
(* and the options) executing one MessagesService.Send call.  Time is      *)
(* counted in whole seconds; the executor's own statements take no time,   *)
(* only its suspension points (limiter wait, backoff wait, Retry-After     *)
(* wait, HTTP round trip) let time pass.                                   *)
(*                                                                         *)
(* The other specifications follow one part of the library each:           *)
(* SpecClassify one error response through handleErrorResponse, SpecOps    *)
(* one public operation up to its first response, SpecQuery one query      *)
(* string, SpecPredicates one error through the six predicates, SpecConfig *)
(* one NewClient with its options, SpecLimiter concurrent calls on one     *)
(* client and its rate limiter, SpecClients calls on two clients,          *)
(* SpecErrors the Error() and Unwrap() of one error value, SpecWebhooks    *)
(* one signature verification or one ParseEvent, SpecBackoff the backoff   *)
(* arithmetic of the retry loop in int64, SpecMarshal Client.request with  *)
(* a body that may fail to marshal.  SpecLive is Spec with the executor's  *)
(* own steps weakly fair.                                                  *)
(***************************************************************************)
EXTENDS Integers, Sequences, FiniteSets, TLC

(***************************************************************************)
(* Bounds of the model.                                                    *)
(***************************************************************************)
\* largest retry budget a client of the model is configured with
MaxBudget == 2
\* largest Retry-After value (seconds) the model's server sends
MaxRetryAfter == 2

(***************************************************************************)
(* Program constants.                                                      *)
(***************************************************************************)
StatusBadRequest == 400
StatusUnauthorized == 401
StatusPaymentRequired == 402
StatusNotFound == 404
StatusUnprocessableEntity == 422
StatusTooManyRequests == 429

(***************************************************************************)
(* Error values.  One record shape for every error the library can hand    *)
(* to a caller; kind is the Go dynamic type.  "ctxErr" is the error of     *)
(* the context package (context.Canceled / context.DeadlineExceeded),      *)
(* which is none of the library's types.  NoErr is the nil error.          *)
(***************************************************************************)
TypedKinds == {"AuthenticationError", "RateLimitError", "InsufficientCreditsError",
               "ValidationError", "NotFoundError", "NetworkError", "SendlyError"}

MkErr(k, st, ra, c, m, cause) ==
    [kind |-> k, status |-> st, retryAfter |-> ra, code |-> c, message |-> m, cause |-> cause]

NoErr == MkErr("nil", 0, 0, "", "", "none")

\* ctx.Err() once ctx.Done() is closed
CtxErr == MkErr("ctxErr", 0, 0, "", "", "none")

SendlyError(apiErr, st) == MkErr("SendlyError", st, 0, apiErr.code, apiErr.message, "none")
AuthenticationError(apiErr) == MkErr("AuthenticationError", 0, 0, apiErr.code, apiErr.message, "none")
RateLimitError(apiErr, ra) == MkErr("RateLimitError", 0, ra, apiErr.code, apiErr.message, "none")
InsufficientCreditsError(apiErr) == MkErr("InsufficientCreditsError", 0, 0, apiErr.code, apiErr.message, "none")
ValidationError(apiErr) == MkErr("ValidationError", 0, 0, apiErr.code, apiErr.message, "none")
NotFoundError(apiErr) == MkErr("NotFoundError", 0, 0, apiErr.code, apiErr.message, "none")
\* cause: "ctx" (wraps the context's error), "transport", "read", "unmarshal"
NetworkError(m, cause) == MkErr("NetworkError", 0, 0, "", m, cause)

(***************************************************************************)
(* strconv.Atoi on a header value, a sequence of one-character strings.    *)
(* Result: [n |-> value, ok |-> no syntax error]; on an error n is 0.      *)
(***************************************************************************)
DigitChars == <<"0", "1", "2", "3", "4", "5", "6", "7", "8", "9">>

IsDigit(c) == \E i \in 1..10 : DigitChars[i] = c

DigitVal(c) == (CHOOSE i \in 1..10 : DigitChars[i] = c) - 1

RECURSIVE DigitsValue(_, _)
DigitsValue(s, acc) ==
    IF s = <<>> THEN acc ELSE DigitsValue(Tail(s), acc * 10 + DigitVal(Head(s)))

Atoi(s) ==
    LET signed == s # <<>> /\ Head(s) \in {"+", "-"}
        digits == IF signed THEN Tail(s) ELSE s
        ok     == digits # <<>> /\ \A i \in 1..Len(digits) : IsDigit(digits[i])
        mag    == IF ok THEN DigitsValue(digits, 0) ELSE 0
    IN  [n |-> IF signed /\ Head(s) = "-" THEN 0 - mag ELSE mag, ok |-> ok]

\* the decimal text of n, 0 <= n <= 99
Itoa(n) == IF n < 10 THEN <<DigitChars[n + 1]>>
           ELSE <<DigitChars[(n \div 10) + 1], DigitChars[(n % 10) + 1]>>

(***************************************************************************)
(* Response bodies.  raw is the body text, valid says whether               *)
(* json.Unmarshal accepts it, code/message are the decoded payload fields. *)
(***************************************************************************)
MkBody(raw, valid, c, m) == [raw |-> raw, valid |-> valid, code |-> c, message |-> m]

BodyPayload == MkBody("{code:SERVER_ERROR,message:boom}", TRUE, "SERVER_ERROR", "boom")
BodyEmptyObject == MkBody("{}", TRUE, "", "")
BodyHTML == MkBody("<html>bad gateway</html>", FALSE, "", "")
BodyEmpty == MkBody("", FALSE, "", "")

Bodies == {BodyPayload, BodyEmptyObject, BodyHTML, BodyEmpty}

\* header values of Retry-After; <<>> is the absent header (Header.Get gives "")
RetryAfterHeaders ==
    {<<>>} \cup {Itoa(n) : n \in 0..MaxRetryAfter} \cup {<<"-", "1">>, <<"x">>, <<"1", "x">>}

(***************************************************************************)
(* handleErrorResponse: status, Retry-After header and body to an error.   *)
(***************************************************************************)
\* mutant: 422 is left to the default case and comes out as a SendlyError
handleErrorResponseDrops422(status, header, body) ==
    LET apiErr == IF body.valid
                  THEN [code |-> body.code, message |-> body.message]
                  ELSE [code |-> "UNKNOWN_ERROR", message |-> body.raw]
    IN  CASE status = StatusUnauthorized -> AuthenticationError(apiErr)
          [] status = StatusTooManyRequests ->
                RateLimitError(apiErr, IF header # <<>> THEN Atoi(header).n ELSE 0)
          [] status = StatusPaymentRequired -> InsufficientCreditsError(apiErr)
          [] status = StatusNotFound -> NotFoundError(apiErr)
          [] status = StatusBadRequest -> ValidationError(apiErr)
          [] OTHER -> SendlyError(apiErr, status)

handleErrorResponse(status, header, body) ==
    LET apiErr == IF body.valid
                  THEN [code |-> body.code, message |-> body.message]
                  ELSE [code |-> "UNKNOWN_ERROR", message |-> body.raw]
    IN  CASE status = StatusUnauthorized -> AuthenticationError(apiErr)
          [] status = StatusTooManyRequests ->
                RateLimitError(apiErr, IF header # <<>> THEN Atoi(header).n ELSE 0)
          [] status = StatusPaymentRequired -> InsufficientCreditsError(apiErr)
          [] status = StatusNotFound -> NotFoundError(apiErr)
          [] status \in {StatusBadRequest, StatusUnprocessableEntity} -> ValidationError(apiErr)
          [] OTHER -> SendlyError(apiErr, status)

(***************************************************************************)
(* One HTTP round trip as the transport reports it to doRequest.           *)
(*   "transport": HTTPClient.Do fails (connect, timeout, DNS)              *)
(*   "readfail" : the response arrives but reading its body fails          *)
(*   "resp"     : a response with status, Retry-After header and body      *)
(***************************************************************************)
MkOutcome(t, st, h, b) == [type |-> t, status |-> st, header |-> h, body |-> b]

\* statuses the model's server answers with
Statuses == {200, 400, 401, 402, 403, 404, 422, 429, 500, 503}

\* bodies the model's server sends to the executor
ServerBodies == {BodyPayload, BodyHTML, BodyEmpty}

Outcomes ==
    {MkOutcome("transport", 0, <<>>, BodyEmpty), MkOutcome("readfail", 0, <<>>, BodyEmpty)}
    \cup {MkOutcome("resp", st, h, b) : st \in Statuses, h \in RetryAfterHeaders, b \in ServerBodies}

\* mutant: a body that cannot be decoded is reported as a ValidationError
doRequestResultUnmarshalIsValidation(o) ==
    IF o.type = "transport" THEN NetworkError("request failed", "transport")
    ELSE IF o.type = "readfail" THEN NetworkError("failed to read response body", "read")
    ELSE IF o.status >= 400 THEN handleErrorResponse(o.status, o.header, o.body)
    ELSE IF o.body.raw # "" /\ ~o.body.valid
         THEN MkErr("ValidationError", 0, 0, "", "failed to unmarshal response", "unmarshal")
    ELSE NoErr

\* doRequest from the return of HTTPClient.Do on; result is never nil for Send
doRequestResult(o) ==
    IF o.type = "transport" THEN NetworkError("request failed", "transport")
    ELSE IF o.type = "readfail" THEN NetworkError("failed to read response body", "read")
    ELSE IF o.status >= 400 THEN handleErrorResponse(o.status, o.header, o.body)
    ELSE IF o.body.raw # "" /\ ~o.body.valid
         THEN NetworkError("failed to unmarshal response", "unmarshal")
    ELSE NoErr

\* HTTPClient.Do with a context that is already done, or that is cancelled
\* while the round trip is in flight: a *url.Error wrapping ctx.Err()
doRequestCancelled == NetworkError("request failed", "ctx")

\* mutant: the NotFoundError case is missing from the type switches
NonRetryableWithoutNotFound(err) ==
    err.kind \in {"AuthenticationError", "ValidationError", "InsufficientCreditsError"}

\* mutant: the default case of the type switch ends the call too
NonRetryableWithGeneric(err) ==
    err.kind \in {"AuthenticationError", "ValidationError", "NotFoundError",
                  "InsufficientCreditsError", "SendlyError"}

\* the type switches of Client.request that end the call at once
NonRetryable(err) ==
    err.kind \in {"AuthenticationError", "ValidationError", "NotFoundError",
                  "InsufficientCreditsError"}

\* the backoff before attempt a >= 1, in seconds
Backoff(a) == 2 ^ (a - 1)

(***************************************************************************)
(* MessagesService.Send: local validation and the returned pair.           *)
(***************************************************************************)
MkRequest(isNil, to, text) == [isNil |-> isNil, to |-> to, text |-> text]

Requests == {MkRequest(TRUE, "", "")}
            \cup {MkRequest(FALSE, to, text) : to \in {"", "+1234567890"}, text \in {"", "hi"}}

LocalValidationError(m) == MkErr("ValidationError", 0, 0, "", m, "none")

SendValidate(req) ==
    IF req.isNil THEN LocalValidationError("request is required")
    ELSE IF req.to = "" THEN LocalValidationError("to is required")
    ELSE IF req.text = "" THEN LocalValidationError("text is required")
    ELSE NoErr

\* mutant: Send hands out its response value together with the error
SendReturnKeepsResult(err) == [result |-> "resp", err |-> err]

\* what Send returns once Client.request has returned err
SendReturn(err) ==
    IF err # NoErr THEN [result |-> "nil", err |-> err]
    ELSE [result |-> "resp", err |-> NoErr]

(***************************************************************************)
(* State.                                                                  *)
(***************************************************************************)
VARIABLES
    MaxRetries,    \* Client.MaxRetries
    pc,            \* where the call is: idle, request, limiter, attempt,
                   \* inflight, backoff, rawait, done
    attempt,       \* the loop variable of Client.request
    lastErr,       \* the local lastErr of Client.request
    timer,         \* seconds left on the timer of the current wait
    ctxDone,       \* ctx.Done() is closed
    retErr,        \* the error Client.request returned
    sendResult,    \* the result Send returned: "nil", "resp"; "none" before
    sendErr,       \* the error Send returned
    \* history, observed from outside the program
    httpAttempts,  \* HTTP requests sent to the server
    results,       \* what each doRequest of the call returned, in order
                   \* (kind, status, retryAfter, cause and HTTP status of each)
    lastResult,    \* what the latest doRequest returned, in full
    sinceResp,     \* seconds since the last doRequest returned (saturating)
    gap,           \* sinceResp when the latest HTTP request was sent
    cancelInfo,    \* the call at the moment the context was cancelled: pc,
                   \* HTTP requests sent so far, and the pending lastErr
    APIKey,        \* Client.APIKey
    reqBody,       \* the body Send hands to Client.request (NilBody before)
    requests,      \* the HTTP requests the call sent, in order: method, path, body
                   \* and the four headers of each
    permits,       \* permits the call acquired from the rate limiter
    \* the classification of one error response (SpecClassify)
    clsPc,         \* "off", "input", "classified"
    clsStatus,     \* resp.StatusCode
    clsHeader,     \* resp.Header.Get("Retry-After")
    clsBody,       \* the response body
    clsErr         \* what handleErrorResponse returned

\* one public operation, from its entry to its first HTTP request (SpecOps)
VARIABLES
    op,            \* the operation called
    arg,           \* its argument
    opPc,          \* "off", "called", "request", "attempt", "sent", "returned"
    opErr,         \* the error the operation returned
    opMethod,      \* the method handed to Client.request
    opPath,        \* the path handed to Client.request
    opWire,        \* the path of the request line the server received
    opPermits,     \* permits the call took from the client's rate limiter
    opHttp         \* HTTP requests the call sent

opsVars == <<op, arg, opPc, opErr, opMethod, opPath, opWire, opPermits, opHttp>>

\* one construction of a query string (SpecQuery)
VARIABLES
    qsCaller,      \* the list operation that builds the path, or "direct"
    qsArg,         \* the request object of the list operation
    qsParams,      \* the params map handed to buildQueryString
    qsPc,          \* "off", "input", "built"
    qsOut          \* the path of the list operation, or the query string

qsVars == <<qsCaller, qsArg, qsParams, qsPc, qsOut>>

\* one error handed to the six predicates (SpecPredicates)
VARIABLES
    predErr,       \* the error value
    predPc,        \* "off", "input", "applied"
    predOut        \* what each predicate returned, by variant

predVars == <<predErr, predPc, predOut>>

\* one construction of a client (SpecConfig)
VARIABLES
    cfgKey,        \* the apiKey handed to NewClient
    cfgOpts,       \* the options handed to NewClient, in order
    cfgPc,         \* "off", "input", "built", "panicked"
    cfgClient,     \* the fields of the Client NewClient returned
    cfgHeap        \* the http.Client objects, by reference: their Timeout

cfgVars == <<cfgKey, cfgOpts, cfgPc, cfgClient, cfgHeap>>

\* concurrent calls on one client and its rate limiter (SpecLimiter)
VARIABLES
    limTokens,     \* the tokens of the client's rate.Limiter (negative: reserved ahead)
    limClock,      \* seconds since NewClient
    limCalls,      \* the call of each goroutine: pc, attempt, timer
    limSent        \* HTTP requests the client sent, by second

limVars == <<limTokens, limClock, limCalls, limSent>>

\* calls on two clients, each with the limiter NewClient gave it (SpecClients)
VARIABLES
    cliClients,    \* the rateLimiter field of each client: a reference, 0 before NewClient
    cliLimiters,   \* the tokens of each rate.Limiter object, by reference
    cliCalls,      \* the call running on each client: pc and timer
    cliOwn,        \* per client, the tokens of a limiter only its own calls draw on
    cliClock       \* seconds since the start

cliVars == <<cliClients, cliLimiters, cliCalls, cliOwn, cliClock>>

\* the text and the cause of one error value (SpecErrors)
VARIABLES
    errVal,        \* the error value
    errPc,         \* "off", "input", "rendered"
    errText,       \* what Error() returned, as the pieces Sprintf put together
    errCause       \* what Unwrap() returned ("none": nil)

errVars == <<errVal, errPc, errText, errCause>>

\* one verification of a webhook signature (SpecWebhooks)
VARIABLES
    whPayload,     \* the raw request body
    whSignature,   \* the value of the signature header, a sequence of characters
    whSecret,      \* the webhook secret
    whPc,          \* "off", "input", "verified"
    whOut,         \* what VerifySignature returned
    whResult       \* what ParseEvent returned: the event, the error, and
                   \* whether json.Unmarshal was called

whVars == <<whPayload, whSignature, whSecret, whPc, whOut, whResult>>

\* the backoff delays of one call, as Client.request computes them (SpecBackoff)
VARIABLES
    bkMaxRetries,  \* Client.MaxRetries
    bkAttempt,     \* the loop variable of Client.request
    bkDelay,       \* the backoff computed for bkAttempt, an int64 as its bytes (lowest first)
    bkPrev         \* the backoff computed for the attempt before

bkVars == <<bkMaxRetries, bkAttempt, bkDelay, bkPrev>>

\* the variables of the specifications other than Spec and SpecClassify
extVars == <<opsVars, qsVars, predVars, cfgVars, limVars, cliVars, errVars, whVars, bkVars>>

vars == <<MaxRetries, pc, attempt, lastErr, timer, ctxDone, retErr, sendResult,
          sendErr, httpAttempts, results, lastResult, sinceResp, gap, cancelInfo,
          APIKey, reqBody, requests, permits,
          clsPc, clsStatus, clsHeader, clsBody, clsErr, extVars>>

clsVars == <<clsPc, clsStatus, clsHeader, clsBody, clsErr>>

execVars == <<MaxRetries, pc, attempt, lastErr, timer, ctxDone, retErr, sendResult,
              sendErr, httpAttempts, results, lastResult, sinceResp, gap, cancelInfo,
              APIKey, reqBody, requests, permits>>

\* the keys a client is constructed with
APIKeys == {"", "test-api-key"}

\* the SDK version
Version == "1.2.0"

\* the path Send hands to Client.request
SendPath == <<"/", "messages">>

\* no body has been handed to Client.request
NilBody == MkRequest(TRUE, "", "")

\* json.Marshal of a SendMessageRequest: the fields in declaration order
\* under their json names; messageType is empty and omitted
Marshal(req) ==
    "{\"to\":\"" \o req.to \o "\",\"text\":\"" \o req.text \o "\"}"

\* values encoding/json has no encoding for
UnsupportedValues == {"chan int", "NaN"}

\* a CreateWebhookRequest whose Metadata, a map[string]interface{}, holds
\* the value metadata
MkWebhookRequest(url, metadata) == [isNil |-> FALSE, url |-> url, metadata |-> metadata]

\* json.Marshal(body) returns no error
Marshalable(b) == ~("metadata" \in DOMAIN b /\ b.metadata \in UnsupportedValues)

\* mutant: a body that cannot be marshalled is reported as a NetworkError
MarshalErrorAsNetwork == NetworkError("failed to marshal request body", "marshal")

\* what doRequest returns when json.Marshal(body) fails
MarshalError ==
    MkErr("ValidationError", 0, 0, "", "failed to marshal request body", "marshal")

\* http.NewRequestWithContext: a request without headers, its body the
\* reader over the marshalled bytes
NewRequest(method, path, jsonBody) ==
    [method |-> method, path |-> path, body |-> jsonBody,
     Authorization |-> "", ContentType |-> "", Accept |-> "", UserAgent |-> ""]

\* the four req.Header.Set calls of doRequest
SetHeaders(req, key) ==
    [req EXCEPT !.Authorization = "Bearer " \o key,
                !.ContentType = "application/json",
                !.Accept = "application/json",
                !.UserAgent = "sendly-go/" \o Version]

MkCancelInfo(at, n, pending) == [at |-> at, attempts |-> n, pending |-> pending]

NotCancelled == MkCancelInfo("none", 0, NoErr)

\* every retry budget of the model: WithMaxRetries accepts any int
Budgets == (0 - 1)..MaxBudget

\* the limiter grants a delayed permit after this many seconds
LimiterDelay == 1

\* sinceResp stops counting here: above every wait the model can sum up
ElapsedCap == MaxRetryAfter + Backoff(MaxBudget + 1) + 1

InitExec ==
    /\ MaxRetries \in Budgets
    /\ pc = "idle"
    /\ attempt = 0
    /\ lastErr = NoErr
    /\ timer = 0
    /\ ctxDone = FALSE
    /\ retErr = NoErr
    /\ sendResult = "none"
    /\ sendErr = NoErr
    /\ httpAttempts = 0
    /\ results = <<>>
    /\ lastResult = NoErr
    /\ sinceResp = 0
    /\ gap = 0
    /\ cancelInfo = NotCancelled
    /\ requests = <<>>
    /\ reqBody = NilBody
    /\ permits = 0

\* no error response is being classified
OffClassify ==
    /\ clsPc = "off"
    /\ clsStatus = 0
    /\ clsHeader = <<>>
    /\ clsBody = BodyEmpty
    /\ clsErr = NoErr

\* the argument of an operation: a request object (isNil, to, text,
\* scheduledAt, messages, list), an identifier or a name
MkArg(isNil, to, text, scheduledAt, id, name, messages, list) ==
    [isNil |-> isNil, to |-> to, text |-> text, scheduledAt |-> scheduledAt,
     id |-> id, name |-> name, messages |-> messages, list |-> list]

\* the list filters of a request: Limit, Offset, Status, To
MkList(limit, offset, status, to) ==
    [limit |-> limit, offset |-> offset, status |-> status, to |-> to]

NoList == MkList(0, 0, <<>>, <<>>)

NoArg == MkArg(FALSE, "", "", "", <<>>, "", <<>>, NoList)

\* no operation is being followed
OffOps ==
    /\ op = "none"
    /\ arg = NoArg
    /\ opPc = "off"
    /\ opErr = NoErr
    /\ opMethod = ""
    /\ opPath = <<>>
    /\ opWire = <<>>
    /\ opPermits = 0
    /\ opHttp = 0

\* no query string is being built
OffQuery ==
    /\ qsCaller = "none"
    /\ qsArg = NoArg
    /\ qsParams = <<>>
    /\ qsPc = "off"
    /\ qsOut = <<>>

\* the variants that have a predicate
PredicateVariants == {"AuthenticationError", "RateLimitError", "InsufficientCreditsError",
                      "ValidationError", "NotFoundError", "NetworkError"}

\* no error is being tested
OffPredicates ==
    /\ predErr = NoErr
    /\ predPc = "off"
    /\ predOut = [v \in PredicateVariants |-> FALSE]

\* DefaultTimeout, in seconds
DefaultTimeout == 30
\* the MaxRetries NewClient starts from
DefaultMaxRetries == 3
\* the Timeout of the http.Client a caller supplies, in seconds
CustomTimeout == 90

MkClient(baseURL, apiKey, httpClient, maxRetries, timeout, debug) ==
    [BaseURL |-> baseURL, APIKey |-> apiKey, HTTPClient |-> httpClient,
     MaxRetries |-> maxRetries, Timeout |-> timeout, Debug |-> debug]

\* the struct literal of NewClient; its HTTPClient is the object "default"
DefaultClient(apiKey) ==
    MkClient("https://sendly.live/api/v1", apiKey, "default", DefaultMaxRetries,
             DefaultTimeout, FALSE)

\* the http.Client objects before NewClient runs: the one of the struct
\* literal and the one the caller may hand to WithHTTPClient
InitialHeap == [r \in {"default", "custom"} |->
                    IF r = "default" THEN DefaultTimeout ELSE CustomTimeout]

\* no client is being constructed
OffConfig ==
    /\ cfgKey = ""
    /\ cfgOpts = <<>>
    /\ cfgPc = "off"
    /\ cfgClient = DefaultClient("")
    /\ cfgHeap = InitialHeap

\* the burst of the limiter NewClient creates
LimiterBurst == 10
\* last second of the model's clock
MaxClock == 1

\* the goroutines that call the client
Slots == {1, 2}

MkCall(p, a, t) == [pc |-> p, attempt |-> a, timer |-> t]

IdleCall == MkCall("idle", 0, 0)

\* no call runs, the limiter is as NewClient made it
OffLimiter ==
    /\ limTokens = LimiterBurst
    /\ limClock = 0
    /\ limCalls = [s \in Slots |-> IdleCall]
    /\ limSent = [t \in 0..MaxClock |-> 0]

\* the clients of SpecClients, and the references of rate.Limiter objects
ClientIds == {1, 2}

\* no client exists
OffClients ==
    /\ cliClients = [c \in ClientIds |-> 0]
    /\ cliLimiters = [r \in ClientIds |-> LimiterBurst]
    /\ cliCalls = [c \in ClientIds |-> MkCall("idle", 0, 0)]
    /\ cliOwn = [c \in ClientIds |-> LimiterBurst]
    /\ cliClock = 0

\* no error is being rendered
OffErrors ==
    /\ errVal = NoErr
    /\ errPc = "off"
    /\ errText = <<>>
    /\ errCause = "none"

\* a (*WebhookEvent, error) pair; unmarshalled says whether ParseEvent got
\* as far as json.Unmarshal
MkParseResult(event, err, unmarshalled) ==
    [event |-> event, err |-> err, unmarshalled |-> unmarshalled]

\* a *WebhookEvent: nil, or the fields ParseEvent looks at
MkEvent(id, type, createdAt) ==
    [isNil |-> FALSE, ID |-> id, Type |-> type, CreatedAt |-> createdAt]

NilEvent == [isNil |-> TRUE, ID |-> "", Type |-> "", CreatedAt |-> ""]

\* ParseEvent has not returned
NoParseResult == MkParseResult(NilEvent, NoErr, FALSE)

\* no signature is being verified
OffWebhooks ==
    /\ whPayload = ""
    /\ whSignature = <<>>
    /\ whSecret = ""
    /\ whPc = "off"
    /\ whOut = FALSE
    /\ whResult = NoParseResult

\* the width of time.Duration, an int64, in bytes
WordBytes == 8

\* time.Second, in nanoseconds
Second == 1000000000

\* the word of w bytes of n, 0 <= n < 2^31; byte 1 is the lowest
ToWord(n, w) == [i \in 1..w |-> IF i <= 4 THEN (n \div (256 ^ (i - 1))) % 256 ELSE 0]

\* no backoff is being computed
OffBackoff ==
    /\ bkMaxRetries = 0
    /\ bkAttempt = 0
    /\ bkDelay = ToWord(0, WordBytes)
    /\ bkPrev = ToWord(0, WordBytes)

\* the variables of every specification other than spec are off
OffExcept(spec) ==
    /\ IF spec = "ops" THEN TRUE ELSE OffOps
    /\ IF spec = "query" THEN TRUE ELSE OffQuery
    /\ IF spec = "predicates" THEN TRUE ELSE OffPredicates
    /\ IF spec = "config" THEN TRUE ELSE OffConfig
    /\ IF spec = "limiter" THEN TRUE ELSE OffLimiter
    /\ IF spec = "clients" THEN TRUE ELSE OffClients
    /\ IF spec = "none" THEN TRUE ELSE APIKey = ""
    /\ IF spec = "errors" THEN TRUE ELSE OffErrors
    /\ IF spec = "webhooks" THEN TRUE ELSE OffWebhooks
    /\ IF spec = "backoff" THEN TRUE ELSE OffBackoff

OffExt == OffExcept("none")

Init ==
    /\ InitExec
    /\ APIKey \in APIKeys
    /\ OffClassify
    /\ OffExt

\* a history entry: the kind and numbers of err and the HTTP status that produced it (0: none)
Entry(err, http) ==
    [kind |-> err.kind, status |-> err.status, retryAfter |-> err.retryAfter,
     cause |-> err.cause, http |-> http]

\* Client.request returns err and Send returns to its caller
Finish(err) ==
    /\ pc' = "done"
    /\ retErr' = err
    /\ sendResult' = SendReturn(err).result
    /\ sendErr' = SendReturn(err).err

\* mutant: the loop condition is attempt < MaxRetries
IterateOneShort(a, le) ==
    /\ attempt' = a
    /\ lastErr' = le
    /\ IF a < MaxRetries
       THEN /\ IF a > 0
               THEN /\ pc' = "backoff"
                    /\ timer' = Backoff(a)
               ELSE /\ pc' = "attempt"
                    /\ timer' = 0
            /\ UNCHANGED <<retErr, sendResult, sendErr>>
       ELSE /\ timer' = 0
            /\ Finish(le)

\* mutant: the loop condition is attempt <= MaxRetries + 1
IterateOneMore(a, le) ==
    /\ attempt' = a
    /\ lastErr' = le
    /\ IF a <= MaxRetries + 1
       THEN /\ IF a > 0
               THEN /\ pc' = "backoff"
                    /\ timer' = Backoff(a)
               ELSE /\ pc' = "attempt"
                    /\ timer' = 0
            /\ UNCHANGED <<retErr, sendResult, sendErr>>
       ELSE /\ timer' = 0
            /\ Finish(le)

\* the head of the retry loop with attempt = a and lastErr = le
Iterate(a, le) ==
    /\ attempt' = a
    /\ lastErr' = le
    /\ IF a <= MaxRetries
       THEN /\ IF a > 0
               THEN /\ pc' = "backoff"
                    /\ timer' = Backoff(a)
               ELSE /\ pc' = "attempt"
                    /\ timer' = 0
            /\ UNCHANGED <<retErr, sendResult, sendErr>>
       ELSE /\ timer' = 0
            /\ Finish(le)

\* mutant: a success returns the error pending from the earlier attempts
HandleResultReturnsPending(err, http) ==
    /\ results' = Append(results, Entry(err, http))
    /\ lastResult' = err
    /\ sinceResp' = 0
    /\ IF err = NoErr \/ NonRetryable(err)
       THEN /\ Finish(IF err = NoErr THEN lastErr ELSE err)
            /\ timer' = 0
            /\ UNCHANGED <<attempt, lastErr>>
       ELSE IF err.kind = "RateLimitError" /\ err.retryAfter > 0
       THEN /\ pc' = "rawait"
            /\ timer' = err.retryAfter
            /\ lastErr' = err
            /\ UNCHANGED <<attempt, retErr, sendResult, sendErr>>
       ELSE Iterate(attempt + 1, err)

\* Client.request after doRequest returned err; http is the status of the
\* response behind err (0 when there was none)
HandleResult(err, http) ==
    /\ results' = Append(results, Entry(err, http))
    /\ lastResult' = err
    /\ sinceResp' = 0
    /\ IF err = NoErr \/ NonRetryable(err)
       THEN /\ Finish(err)
            /\ timer' = 0
            /\ UNCHANGED <<attempt, lastErr>>
       ELSE IF err.kind = "RateLimitError" /\ err.retryAfter > 0
       THEN /\ pc' = "rawait"
            /\ timer' = err.retryAfter
            /\ lastErr' = err
            /\ UNCHANGED <<attempt, retErr, sendResult, sendErr>>
       ELSE Iterate(attempt + 1, err)

(***************************************************************************)
(* Actions.                                                                *)
(***************************************************************************)
\* the caller invokes Send(ctx, req); done says whether ctx is already done
CallSend(req, done) ==
    /\ pc = "idle"
    /\ ctxDone' = done
    /\ cancelInfo' = IF done THEN MkCancelInfo("before", 0, NoErr) ELSE NotCancelled
    /\ IF SendValidate(req) # NoErr
       THEN /\ pc' = "done"
            /\ sendResult' = "nil"
            /\ sendErr' = SendValidate(req)
       ELSE /\ pc' = "request"
            /\ UNCHANGED <<sendResult, sendErr>>
    /\ reqBody' = IF SendValidate(req) # NoErr THEN reqBody ELSE req
    /\ UNCHANGED <<MaxRetries, APIKey, requests, permits, attempt, lastErr, timer, retErr, httpAttempts,
                   results, lastResult, sinceResp, gap>>
    /\ UNCHANGED <<clsVars, extVars>>

\* rateLimiter.Wait(ctx): error when ctx is done, else a permit now
\* (permit) or after a delay
LimiterWait(permit) ==
    /\ pc = "request"
    /\ IF ctxDone
       THEN /\ Finish(NetworkError("rate limiter error", "ctx"))
            /\ UNCHANGED <<attempt, lastErr, timer>>
       ELSE IF permit
       THEN Iterate(0, NoErr)
       ELSE /\ pc' = "limiter"
            /\ timer' = LimiterDelay
            /\ UNCHANGED <<attempt, lastErr, retErr, sendResult, sendErr>>
    /\ permits' = IF ~ctxDone /\ permit THEN permits + 1 ELSE permits
    /\ UNCHANGED <<MaxRetries, APIKey, reqBody, requests, ctxDone, httpAttempts, results, lastResult, sinceResp, gap, cancelInfo>>
    /\ UNCHANGED <<clsVars, extVars>>

\* mutant: the limiter's error is returned as it is, not wrapped
LimiterWakeUnwrapped ==
    /\ pc = "limiter"
    /\ IF ctxDone
       THEN /\ Finish(CtxErr)
            /\ timer' = 0
            /\ UNCHANGED <<attempt, lastErr>>
       ELSE /\ timer = 0
            /\ Iterate(0, NoErr)
    /\ permits' = IF ctxDone THEN permits ELSE permits + 1
    /\ UNCHANGED <<MaxRetries, APIKey, reqBody, requests, ctxDone, httpAttempts, results, lastResult, sinceResp, gap, cancelInfo>>
    /\ UNCHANGED <<clsVars, extVars>>

\* the delayed permit arrives, or ctx is cancelled during the wait
LimiterWake ==
    /\ pc = "limiter"
    /\ IF ctxDone
       THEN /\ Finish(NetworkError("rate limiter error", "ctx"))
            /\ timer' = 0
            /\ UNCHANGED <<attempt, lastErr>>
       ELSE /\ timer = 0
            /\ Iterate(0, NoErr)
    /\ permits' = IF ctxDone THEN permits ELSE permits + 1
    /\ UNCHANGED <<MaxRetries, APIKey, reqBody, requests, ctxDone, httpAttempts, results, lastResult, sinceResp, gap, cancelInfo>>
    /\ UNCHANGED <<clsVars, extVars>>

\* mutant: a cancelled backoff wait returns the pending lastErr
BackoffCancelledReturnsLastErr ==
    /\ pc = "backoff"
    /\ ctxDone
    /\ Finish(lastErr)
    /\ timer' = 0
    /\ UNCHANGED <<MaxRetries, APIKey, reqBody, requests, permits, attempt, lastErr, ctxDone, httpAttempts, results,
                   lastResult, sinceResp, gap, cancelInfo>>
    /\ UNCHANGED <<clsVars, extVars>>

\* the select of the backoff wait: ctx.Done() wins
BackoffCancelled ==
    /\ pc = "backoff"
    /\ ctxDone
    /\ Finish(CtxErr)
    /\ timer' = 0
    /\ UNCHANGED <<MaxRetries, APIKey, reqBody, requests, permits, attempt, lastErr, ctxDone, httpAttempts, results,
                   lastResult, sinceResp, gap, cancelInfo>>
    /\ UNCHANGED <<clsVars, extVars>>

\* mutant: the limiter is asked again before every retry
BackoffElapsedTakesPermit ==
    /\ pc = "backoff"
    /\ timer = 0
    /\ pc' = "attempt"
    /\ permits' = permits + 1
    /\ UNCHANGED <<MaxRetries, APIKey, reqBody, requests, attempt, lastErr, timer, ctxDone, retErr,
                   sendResult, sendErr, httpAttempts, results, lastResult, sinceResp,
                   gap, cancelInfo>>
    /\ UNCHANGED <<clsVars, extVars>>

\* the select of the backoff wait: time.After(backoff) wins
BackoffElapsed ==
    /\ pc = "backoff"
    /\ timer = 0
    /\ pc' = "attempt"
    /\ UNCHANGED <<MaxRetries, APIKey, reqBody, requests, permits, attempt, lastErr, timer, ctxDone, retErr, sendResult,
                   sendErr, httpAttempts, results, lastResult, sinceResp, gap, cancelInfo>>
    /\ UNCHANGED <<clsVars, extVars>>

\* mutant: the headers are set on the first request of a call only
DoRequestHeadersOnce ==
    /\ pc = "attempt"
    /\ IF ctxDone
       THEN /\ HandleResult(doRequestCancelled, 0)
            /\ UNCHANGED <<httpAttempts, gap, requests>>
       ELSE /\ pc' = "inflight"
            /\ httpAttempts' = httpAttempts + 1
            /\ gap' = sinceResp
            /\ requests' = Append(requests,
                    IF attempt = 0 THEN SetHeaders(NewRequest("POST", SendPath, Marshal(reqBody)), APIKey)
                    ELSE NewRequest("POST", SendPath, Marshal(reqBody)))
            /\ UNCHANGED <<attempt, lastErr, timer, retErr, sendResult, sendErr,
                           results, lastResult, sinceResp>>
    /\ UNCHANGED <<MaxRetries, APIKey, reqBody, permits, ctxDone, cancelInfo>>
    /\ UNCHANGED <<clsVars, extVars>>

\* mutant: the body is marshalled for the first request of a call only
DoRequestBodyOnce ==
    /\ pc = "attempt"
    /\ IF ctxDone
       THEN /\ HandleResult(doRequestCancelled, 0)
            /\ UNCHANGED <<httpAttempts, gap, requests>>
       ELSE /\ pc' = "inflight"
            /\ httpAttempts' = httpAttempts + 1
            /\ gap' = sinceResp
            /\ requests' = Append(requests,
                    SetHeaders(NewRequest("POST", SendPath,
                                          IF attempt = 0 THEN Marshal(reqBody) ELSE ""),
                               APIKey))
            /\ UNCHANGED <<attempt, lastErr, timer, retErr, sendResult, sendErr,
                           results, lastResult, sinceResp>>
    /\ UNCHANGED <<MaxRetries, APIKey, reqBody, permits, ctxDone, cancelInfo>>
    /\ UNCHANGED <<clsVars, extVars>>

\* doRequest up to HTTPClient.Do: the body is marshalled, the request is
\* built, its headers are set and it is handed to Do; a body that cannot be
\* marshalled ends doRequest at once, and with ctx done Do fails without
\* sending
DoRequest ==
    /\ pc = "attempt"
    /\ IF ~Marshalable(reqBody)
       THEN /\ HandleResult(MarshalError, 0)
            /\ UNCHANGED <<httpAttempts, gap, requests>>
       ELSE IF ctxDone
       THEN /\ HandleResult(doRequestCancelled, 0)
            /\ UNCHANGED <<httpAttempts, gap, requests>>
       ELSE /\ pc' = "inflight"
            /\ httpAttempts' = httpAttempts + 1
            /\ gap' = sinceResp
            /\ requests' = Append(requests, SetHeaders(NewRequest("POST", SendPath, Marshal(reqBody)), APIKey))
            /\ UNCHANGED <<attempt, lastErr, timer, retErr, sendResult, sendErr,
                           results, lastResult, sinceResp>>
    /\ UNCHANGED <<MaxRetries, APIKey, reqBody, permits, ctxDone, cancelInfo>>
    /\ UNCHANGED <<clsVars, extVars>>

\* the round trip ends with outcome o, or is aborted by the cancellation
HTTPFinish(o) ==
    /\ pc = "inflight"
    /\ IF ctxDone
       THEN HandleResult(doRequestCancelled, 0)
       ELSE HandleResult(doRequestResult(o), IF o.type = "resp" THEN o.status ELSE 0)
    /\ UNCHANGED <<MaxRetries, APIKey, reqBody, requests, permits, ctxDone, httpAttempts, gap, cancelInfo>>
    /\ UNCHANGED <<clsVars, extVars>>

\* the select of the Retry-After wait: ctx.Done() wins
RetryAfterCancelled ==
    /\ pc = "rawait"
    /\ ctxDone
    /\ Finish(CtxErr)
    /\ timer' = 0
    /\ UNCHANGED <<MaxRetries, APIKey, reqBody, requests, permits, attempt, lastErr, ctxDone, httpAttempts, results,
                   lastResult, sinceResp, gap, cancelInfo>>
    /\ UNCHANGED <<clsVars, extVars>>

\* mutant: the Retry-After wait stands in for the backoff of the next attempt
RetryAfterElapsedSkipsBackoff ==
    /\ pc = "rawait"
    /\ timer = 0
    /\ attempt' = attempt + 1
    /\ IF attempt + 1 <= MaxRetries
       THEN /\ pc' = "attempt"
            /\ UNCHANGED <<retErr, sendResult, sendErr>>
       ELSE Finish(lastErr)
    /\ UNCHANGED <<MaxRetries, APIKey, reqBody, requests, permits, lastErr, timer, ctxDone,
                   httpAttempts, results, lastResult, sinceResp, gap, cancelInfo>>
    /\ UNCHANGED <<clsVars, extVars>>

\* the select of the Retry-After wait: time.After wins
RetryAfterElapsed ==
    /\ pc = "rawait"
    /\ timer = 0
    /\ Iterate(attempt + 1, lastErr)
    /\ UNCHANGED <<MaxRetries, APIKey, reqBody, requests, permits, ctxDone, httpAttempts, results, lastResult, sinceResp, gap, cancelInfo>>
    /\ UNCHANGED <<clsVars, extVars>>

\* one second of a timed wait passes.  The duration of a round trip and a
\* late wake-up are not measured: they only lengthen what sinceResp counts.
Tick ==
    /\ pc \in {"limiter", "backoff", "rawait"}
    /\ timer > 0
    /\ timer' = timer - 1
    /\ sinceResp' = IF results = <<>> \/ sinceResp >= ElapsedCap THEN sinceResp
                    ELSE sinceResp + 1
    /\ UNCHANGED <<MaxRetries, APIKey, reqBody, requests, permits, pc, attempt, lastErr, ctxDone, retErr, sendResult,
                   sendErr, httpAttempts, results, lastResult, gap, cancelInfo>>
    /\ UNCHANGED <<clsVars, extVars>>

\* the caller cancels ctx (or its deadline passes) while the call runs
Cancel ==
    /\ pc \in {"request", "limiter", "attempt", "backoff", "rawait", "inflight"}
    /\ ~ctxDone
    /\ ctxDone' = TRUE
    /\ cancelInfo' = MkCancelInfo(pc, httpAttempts, lastErr)
    /\ UNCHANGED <<MaxRetries, APIKey, reqBody, requests, permits, pc, attempt, lastErr, timer, retErr, sendResult,
                   sendErr, httpAttempts, results, lastResult, sinceResp, gap>>
    /\ UNCHANGED <<clsVars, extVars>>

Next ==
    \/ \E req \in Requests, done \in BOOLEAN : CallSend(req, done)
    \/ \E permit \in BOOLEAN : LimiterWait(permit)
    \/ LimiterWake
    \/ BackoffCancelled
    \/ BackoffElapsed
    \/ DoRequest
    \/ \E o \in Outcomes : HTTPFinish(o)
    \/ RetryAfterCancelled
    \/ RetryAfterElapsed
    \/ Tick
    \/ Cancel

Spec == Init /\ [][Next]_vars

\* what the executor does by itself once a call is made: every step but the
\* caller's (CallSend, Cancel)
Progress ==
    \/ \E permit \in BOOLEAN : LimiterWait(permit)
    \/ LimiterWake
    \/ BackoffCancelled
    \/ BackoffElapsed
    \/ DoRequest
    \/ \E o \in Outcomes : HTTPFinish(o)
    \/ RetryAfterCancelled
    \/ RetryAfterElapsed
    \/ Tick

\* Spec with every attempt and every wait completing: the limiter answers,
\* timers run down, round trips end
SpecLive == Spec /\ WF_vars(Progress)

(***************************************************************************)
(* SpecMarshal: Client.request with a body of any operation.  Send's body  *)
(* always marshals; the Metadata of a CreateWebhookRequest may hold a      *)
(* value that json.Marshal rejects.                                        *)
(***************************************************************************)
\* the bodies handed to Client.request
RequestBodies ==
    {MkRequest(FALSE, "+1234567890", "hi")}
    \cup {MkWebhookRequest("https://example.com/hook", m) : m \in UnsupportedValues}

InitMarshal ==
    /\ InitExec
    /\ OffClassify
    /\ OffExcept("marshal")

\* an operation calls c.request(ctx, "POST", path, body, &resp); done says
\* whether ctx is already done
CallRequest(b, done) ==
    /\ pc = "idle"
    /\ pc' = "request"
    /\ reqBody' = b
    /\ ctxDone' = done
    /\ cancelInfo' = IF done THEN MkCancelInfo("before", 0, NoErr) ELSE NotCancelled
    /\ UNCHANGED <<MaxRetries, APIKey, requests, permits, attempt, lastErr, timer, retErr,
                   sendResult, sendErr, httpAttempts, results, lastResult, sinceResp, gap>>
    /\ UNCHANGED <<clsVars, extVars>>

NextMarshal ==
    \/ \E b \in RequestBodies, done \in BOOLEAN : CallRequest(b, done)
    \/ \E permit \in BOOLEAN : LimiterWait(permit)
    \/ LimiterWake
    \/ BackoffCancelled
    \/ BackoffElapsed
    \/ DoRequest
    \/ \E o \in Outcomes : HTTPFinish(o)
    \/ RetryAfterCancelled
    \/ RetryAfterElapsed
    \/ Tick
    \/ Cancel

SpecMarshal == InitMarshal /\ [][NextMarshal]_vars

TypeOK ==
    /\ MaxRetries \in Budgets
    /\ pc \in {"idle", "request", "limiter", "attempt", "inflight", "backoff", "rawait", "done"}
    /\ attempt \in 0..(MaxBudget + 1)
    /\ timer \in 0..ElapsedCap
    /\ ctxDone \in BOOLEAN
    /\ sendResult \in {"none", "nil", "resp"}
    /\ httpAttempts \in 0..(MaxBudget + 1)
    /\ Len(results) <= MaxBudget + 1
    /\ sinceResp \in 0..ElapsedCap

(***************************************************************************)
(* The classification of one error response, as a specification of its    *)
(* own: Init draws the response, Classify applies handleErrorResponse.     *)
(***************************************************************************)
\* every status doRequest hands to handleErrorResponse in the model
ErrorStatuses == 400..599

InitClassify ==
    /\ InitExec
    /\ clsPc = "input"
    /\ clsStatus \in ErrorStatuses
    /\ clsHeader \in RetryAfterHeaders
    /\ clsBody \in Bodies
    /\ clsErr = NoErr
    /\ OffExcept("classify")

Classify ==
    /\ clsPc = "input"
    /\ clsErr' = handleErrorResponse(clsStatus, clsHeader, clsBody)
    /\ clsPc' = "classified"
    /\ UNCHANGED <<clsStatus, clsHeader, clsBody>>
    /\ UNCHANGED <<execVars, extVars>>

NextClassify == Classify

SpecClassify == InitClassify /\ [][NextClassify]_vars

(***************************************************************************)
(* The public operations.  Strings that are encoded, split or counted are  *)
(* sequences of one-character strings; the others are TLA+ strings.        *)
(***************************************************************************)
\* longest identifier of the model
MaxIdLen == 3
\* longest batch of the model
MaxBatch == 3

\* the sequences over S of length at most n
RECURSIVE SeqsUpTo(_, _)
SeqsUpTo(S, n) ==
    IF n = 0 THEN {<<>>}
    ELSE LET shorter == SeqsUpTo(S, n - 1)
         IN  shorter \cup {Append(s, c) : s \in {t \in shorter : Len(t) = n - 1}, c \in S}

\* the concatenation of a sequence of sequences
RECURSIVE Concat(_)
Concat(ss) == IF ss = <<>> THEN <<>> ELSE Head(ss) \o Concat(Tail(ss))

\* how often c occurs in s
RECURSIVE Count(_, _)
Count(s, c) ==
    IF s = <<>> THEN 0 ELSE (IF Head(s) = c THEN 1 ELSE 0) + Count(Tail(s), c)

\* the index of the first element of s that is in S; 0 when there is none
FirstIn(s, S) ==
    IF \E i \in 1..Len(s) : s[i] \in S
    THEN CHOOSE i \in 1..Len(s) : s[i] \in S /\ \A j \in 1..(i - 1) : s[j] \notin S
    ELSE 0

\* s is t followed by something
HasPrefix(s, t) == Len(s) >= Len(t) /\ SubSeq(s, 1, Len(t)) = t

\* the characters identifiers are made of: a letter, the separators of a
\* URL, the escape character and a blank
IdChars == {"m", "/", "?", "#", "%", " "}

Ids == SeqsUpTo(IdChars, MaxIdLen)

HexDigits == {"0", "1", "2", "3", "4", "5", "6", "7", "8", "9",
              "A", "B", "C", "D", "E", "F", "a", "b", "c", "d", "e", "f"}

\* url.PathEscape on one character: letters pass, the rest is %XX
PathEscapeChar(c) ==
    CASE c = "/" -> <<"%", "2", "F">>
      [] c = "?" -> <<"%", "3", "F">>
      [] c = "#" -> <<"%", "2", "3">>
      [] c = "%" -> <<"%", "2", "5">>
      [] c = " " -> <<"%", "2", "0">>
      [] OTHER -> <<c>>

\* mutant: the identifier is put in the path as it is
PathEscapeIdentity(id) == id

\* url.PathEscape
PathEscape(id) == Concat([i \in 1..Len(id) |-> PathEscapeChar(id[i])])

\* the character a %XX triplet stands for (url.PathUnescape on one triplet)
UnescapeTriplet(t) ==
    CASE t = <<"%", "2", "F">> -> "/"
      [] t = <<"%", "3", "F">> -> "?"
      [] t = <<"%", "2", "3">> -> "#"
      [] t = <<"%", "2", "5">> -> "%"
      [] t = <<"%", "2", "0">> -> " "
      [] OTHER -> "?!"

\* url.PathUnescape, as the server applies it to one path segment
RECURSIVE PathUnescape(_)
PathUnescape(s) ==
    IF s = <<>> THEN <<>>
    ELSE IF Head(s) = "%" /\ Len(s) >= 3
         THEN <<UnescapeTriplet(SubSeq(s, 1, 3))>> \o PathUnescape(SubSeq(s, 4, Len(s)))
         ELSE <<Head(s)>> \o PathUnescape(Tail(s))

\* every % of s starts a %XX triplet
RECURSIVE ValidEscapes(_)
ValidEscapes(s) ==
    IF s = <<>> THEN TRUE
    ELSE IF Head(s) = "%"
         THEN /\ Len(s) >= 3
              /\ s[2] \in HexDigits
              /\ s[3] \in HexDigits
              /\ ValidEscapes(SubSeq(s, 4, Len(s)))
         ELSE ValidEscapes(Tail(s))

\* s up to, and without, its first character of S
Before(s, S) == IF FirstIn(s, S) = 0 THEN s ELSE SubSeq(s, 1, FirstIn(s, S) - 1)

\* the path component url.Parse finds in BaseURL + path: what precedes the
\* fragment and the query
URLPath(path) == Before(Before(path, {"#"}), {"?"})

\* http.NewRequestWithContext accepts BaseURL + path
URLParses(path) == ValidEscapes(URLPath(path))

\* URL.EscapedPath, the path of the request line: a path that is a valid
\* encoding goes out as written, a blank goes out as %20
EscapedPath(p) ==
    Concat([i \in 1..Len(p) |-> IF p[i] = " " THEN <<"%", "2", "0">> ELSE <<p[i]>>])

\* the path the server receives for the path handed to Client.request
WirePath(path) == EscapedPath(URLPath(path))

\* the segments of a path are what its "/" separate
Segments(p) == Count(p, "/")

(***************************************************************************)
(* buildQueryString.  A path is a sequence whose elements are "/", "?",    *)
(* "&", "=", the fixed words of the endpoints and of the query keys, and   *)
(* the characters of identifiers and filter values.                        *)
(***************************************************************************)
\* largest Limit and Offset of the model
MaxPage == 2

\* the keys the operations put in params, in the order of sort.Strings
QueryKeys == <<"limit", "offset", "status", "to">>

\* the characters of filter values: a letter, a blank and the separators
\* of a query string
FilterChars == {"m", " ", "&", "=", "+"}

\* the string filters of the model (Status, To): empty or one character
FilterValues == {<<>>} \cup {<<c>> : c \in FilterChars}

\* url.QueryEscape on one character
QueryEscapeChar(c) ==
    CASE c = " " -> <<"+">>
      [] c = "&" -> <<"%", "2", "6">>
      [] c = "=" -> <<"%", "3", "D">>
      [] c = "+" -> <<"%", "2", "B">>
      [] OTHER -> <<c>>

\* url.QueryEscape
QueryEscape(v) == Concat([i \in 1..Len(v) |-> QueryEscapeChar(v[i])])

\* the elements of sequence s that satisfy Keep, in order
RECURSIVE SelectKeys(_, _)
SelectKeys(s, keep) ==
    IF s = <<>> THEN <<>>
    ELSE (IF Head(s) \in keep THEN <<Head(s)>> ELSE <<>>) \o SelectKeys(Tail(s), keep)

\* url.Values.Encode: key=value pairs in key order, joined by "&"
RECURSIVE Encode(_, _)
Encode(keys, values) ==
    IF keys = <<>> THEN <<>>
    ELSE <<Head(keys), "=">> \o QueryEscape(values[Head(keys)])
         \o (IF Tail(keys) = <<>> THEN <<>> ELSE <<"&">> \o Encode(Tail(keys), values))

\* mutant: empty values are not dropped
buildQueryStringKeepsEmpty(params) ==
    IF DOMAIN params = {} THEN <<>>
    ELSE <<"?">> \o Encode(SelectKeys(QueryKeys, DOMAIN params), params)

\* buildQueryString on the map params (a function from keys to values)
buildQueryString(params) ==
    IF DOMAIN params = {} THEN <<>>
    ELSE LET values == {k \in DOMAIN params : params[k] # <<>>}
         IN  IF values = {} THEN <<>>
             ELSE <<"?">> \o Encode(SelectKeys(QueryKeys, values), params)

\* the params map a list operation fills from its request: keys is what
\* the request type of the operation has
ListParams(a, keys) ==
    LET l == a.list
        set == {k \in keys : \/ k = "limit" /\ l.limit > 0
                             \/ k = "offset" /\ l.offset > 0
                             \/ k = "status" /\ l.status # <<>>
                             \/ k = "to" /\ l.to # <<>>}
    IN  IF a.isNil THEN <<>>
        ELSE [k \in set |-> CASE k = "limit" -> Itoa(l.limit)
                              [] k = "offset" -> Itoa(l.offset)
                              [] k = "status" -> l.status
                              [] OTHER -> l.to]

(***************************************************************************)
(* The operations of MessagesService and AccountService.                   *)
(***************************************************************************)
IdOps == {"Get", "GetScheduled", "CancelScheduled", "GetBatch"}
AccountIdOps == {"Account.GetAPIKey", "Account.GetAPIKeyUsage", "Account.RevokeAPIKey"}
ListOps == {"List", "ListScheduled", "ListBatches", "Account.GetCreditTransactions"}
PlainOps == {"Account.Get", "Account.GetCredits", "Account.ListAPIKeys"}
Ops == {"Send", "Schedule", "SendBatch", "Account.CreateAPIKey"}
       \cup IdOps \cup AccountIdOps \cup ListOps \cup PlainOps

\* the loop of SendBatch over req.Messages from index i on (i counts from 0)
RECURSIVE SendBatchItems(_, _)
SendBatchItems(msgs, i) ==
    IF i >= Len(msgs) THEN NoErr
    ELSE IF msgs[i + 1].to = ""
         THEN LocalValidationError("to is required for message at index " \o ToString(i))
    ELSE IF msgs[i + 1].text = ""
         THEN LocalValidationError("text is required for message at index " \o ToString(i))
    ELSE SendBatchItems(msgs, i + 1)

\* mutant: the loop of SendBatch starts at the second message
SendBatchValidateSkipsFirst(a) ==
    IF a.isNil THEN LocalValidationError("request is required")
    ELSE IF Len(a.messages) = 0 THEN LocalValidationError("messages are required")
    ELSE SendBatchItems(a.messages, 1)

SendBatchValidate(a) ==
    IF a.isNil THEN LocalValidationError("request is required")
    ELSE IF Len(a.messages) = 0 THEN LocalValidationError("messages are required")
    ELSE SendBatchItems(a.messages, 0)

\* mutant: Schedule checks scheduledAt before to and text
ScheduleValidateScheduledAtFirst(a) ==
    IF a.isNil THEN LocalValidationError("request is required")
    ELSE IF a.scheduledAt = "" THEN LocalValidationError("scheduledAt is required")
    ELSE IF a.to = "" THEN LocalValidationError("to is required")
    ELSE IF a.text = "" THEN LocalValidationError("text is required")
    ELSE NoErr

ScheduleValidate(a) ==
    IF a.isNil THEN LocalValidationError("request is required")
    ELSE IF a.to = "" THEN LocalValidationError("to is required")
    ELSE IF a.text = "" THEN LocalValidationError("text is required")
    ELSE IF a.scheduledAt = "" THEN LocalValidationError("scheduledAt is required")
    ELSE NoErr

\* the checks an operation makes before it calls Client.request
Validate(o, a) ==
    CASE o = "Send" -> SendValidate(MkRequest(a.isNil, a.to, a.text))
      [] o = "Schedule" -> ScheduleValidate(a)
      [] o = "SendBatch" -> SendBatchValidate(a)
      [] o = "Get" ->
            IF a.id = <<>> THEN LocalValidationError("message ID is required") ELSE NoErr
      [] o \in {"GetScheduled", "CancelScheduled"} ->
            IF a.id = <<>> THEN LocalValidationError("scheduled message ID is required")
            ELSE NoErr
      [] o = "GetBatch" ->
            IF a.id = <<>> THEN LocalValidationError("batch ID is required") ELSE NoErr
      [] o = "Account.CreateAPIKey" ->
            IF a.name = "" THEN LocalValidationError("API key name is required") ELSE NoErr
      [] o = "Account.RevokeAPIKey" ->
            IF a.id = <<>> THEN LocalValidationError("API key ID is required") ELSE NoErr
      [] OTHER -> NoErr

\* the method an operation hands to Client.request
MethodOf(o) ==
    CASE o \in {"Send", "Schedule", "SendBatch", "Account.CreateAPIKey"} -> "POST"
      [] o \in {"CancelScheduled", "Account.RevokeAPIKey"} -> "DELETE"
      [] OTHER -> "GET"

\* the path an operation hands to Client.request
PathOf(o, a) ==
    CASE o = "Send" -> <<"/", "messages">>
      [] o = "List" ->
            <<"/", "messages">> \o buildQueryString(ListParams(a, {"limit", "offset", "status", "to"}))
      [] o = "Get" -> <<"/", "messages", "/">> \o PathEscape(a.id)
      [] o = "Schedule" -> <<"/", "messages", "/", "schedule">>
      [] o = "ListScheduled" ->
            <<"/", "messages", "/", "scheduled">>
            \o buildQueryString(ListParams(a, {"limit", "offset", "status"}))
      [] o \in {"GetScheduled", "CancelScheduled"} ->
            <<"/", "messages", "/", "scheduled", "/">> \o PathEscape(a.id)
      [] o = "SendBatch" -> <<"/", "messages", "/", "batch">>
      [] o = "GetBatch" -> <<"/", "messages", "/", "batch", "/">> \o PathEscape(a.id)
      [] o = "ListBatches" ->
            <<"/", "messages", "/", "batches">>
            \o buildQueryString(ListParams(a, {"limit", "offset", "status"}))
      [] o = "Account.Get" -> <<"/", "account">>
      [] o = "Account.GetCredits" -> <<"/", "credits">>
      [] o = "Account.GetCreditTransactions" ->
            <<"/", "credits", "/", "transactions">>
            \o (IF a.isNil THEN <<>> ELSE buildQueryString(ListParams(a, {"limit", "offset"})))
      [] o = "Account.ListAPIKeys" -> <<"/", "keys">>
      [] o = "Account.GetAPIKey" -> <<"/", "keys", "/">> \o a.id
      [] o = "Account.GetAPIKeyUsage" -> <<"/", "keys", "/">> \o a.id \o <<"/", "usage">>
      [] o = "Account.CreateAPIKey" -> <<"/", "account", "/", "keys">>
      [] OTHER -> <<"/", "account", "/", "keys", "/">> \o a.id

(***************************************************************************)
(* One call of one public operation, followed from its entry to the first  *)
(* response: local validation, the path, the limiter permit, the request   *)
(* line.  What the executor does after the first response is the subject   *)
(* of Spec.                                                                *)
(***************************************************************************)
\* the request objects of Send and Schedule
MessageArgs(scheduledAts) ==
    {MkArg(TRUE, "", "", "", <<>>, "", <<>>, NoList)}
    \cup {MkArg(FALSE, to, text, at, <<>>, "", <<>>, NoList) :
            to \in {"", "+1234567890"}, text \in {"", "hi"}, at \in scheduledAts}

BatchItems == [to : {"", "+1234567890"}, text : {"", "hi"}]

\* the request objects of SendBatch
BatchArgs ==
    {MkArg(TRUE, "", "", "", <<>>, "", <<>>, NoList)}
    \cup {MkArg(FALSE, "", "", "", <<>>, "", msgs, NoList) : msgs \in SeqsUpTo(BatchItems, MaxBatch)}

\* the request objects of a list operation whose request type has keys
ListArgs(keys) ==
    {MkArg(TRUE, "", "", "", <<>>, "", <<>>, NoList)}
    \cup {MkArg(FALSE, "", "", "", <<>>, "", <<>>, MkList(l, o, st, to)) :
            l \in (0 - 1)..MaxPage,
            o \in (IF "offset" \in keys THEN (0 - 1)..MaxPage ELSE {0}),
            st \in (IF "status" \in keys THEN FilterValues ELSE {<<>>}),
            to \in (IF "to" \in keys THEN FilterValues ELSE {<<>>})}

\* the arguments the model calls an operation with
ArgsOf(o) ==
    CASE o = "Send" -> MessageArgs({""})
      [] o = "Schedule" -> MessageArgs({"", "2030-01-01T00:00:00Z"})
      [] o = "SendBatch" -> BatchArgs
      [] o \in IdOps \cup AccountIdOps ->
            {MkArg(FALSE, "", "", "", id, "", <<>>, NoList) : id \in Ids}
      [] o = "Account.CreateAPIKey" ->
            {MkArg(FALSE, "", "", "", <<>>, n, <<>>, NoList) : n \in {"", "ci"}}
      [] o = "List" -> ListArgs({"limit", "offset", "status", "to"})
      [] o \in {"ListScheduled", "ListBatches"} -> ListArgs({"limit", "offset", "status"})
      [] o = "Account.GetCreditTransactions" -> ListArgs({"limit", "offset"})
      [] OTHER -> {NoArg}

\* what the model's server does with the first request of an operation
OpOutcomes ==
    {MkOutcome("transport", 0, <<>>, BodyEmpty),
     MkOutcome("resp", 200, <<>>, BodyPayload),
     MkOutcome("resp", 404, <<>>, BodyPayload),
     MkOutcome("resp", 500, <<>>, BodyHTML)}

\* what no action of SpecOps changes
outsideOps == <<execVars, clsVars, qsVars, predVars, cfgVars, limVars, cliVars, errVars, whVars, bkVars>>

InitOps ==
    /\ InitExec
    /\ OffClassify
    /\ OffExcept("ops")
    /\ op \in Ops
    /\ arg \in ArgsOf(op)
    /\ opPc = "called"
    /\ opErr = NoErr
    /\ opMethod = ""
    /\ opPath = <<>>
    /\ opWire = <<>>
    /\ opPermits = 0
    /\ opHttp = 0

\* the operation up to its call of Client.request
OpCall ==
    /\ opPc = "called"
    /\ IF Validate(op, arg) # NoErr
       THEN /\ opErr' = Validate(op, arg)
            /\ opPc' = "returned"
            /\ UNCHANGED <<opMethod, opPath>>
       ELSE /\ opMethod' = MethodOf(op)
            /\ opPath' = PathOf(op, arg)
            /\ opPc' = "request"
            /\ UNCHANGED opErr
    /\ UNCHANGED <<op, arg, opWire, opPermits, opHttp>>
    /\ UNCHANGED outsideOps

\* rateLimiter.Wait(ctx): a permit, or an error when ctx is done first
OpLimiterWait(granted) ==
    /\ opPc = "request"
    /\ IF granted
       THEN /\ opPermits' = opPermits + 1
            /\ opPc' = "attempt"
            /\ UNCHANGED opErr
       ELSE /\ opErr' = NetworkError("rate limiter error", "ctx")
            /\ opPc' = "returned"
            /\ UNCHANGED opPermits
    /\ UNCHANGED <<op, arg, opMethod, opPath, opWire, opHttp>>
    /\ UNCHANGED outsideOps

\* doRequest up to HTTPClient.Do: a path that does not parse as a URL
\* fails every attempt alike and nothing is sent
OpDoRequest ==
    /\ opPc = "attempt"
    /\ IF URLParses(opPath)
       THEN /\ opHttp' = opHttp + 1
            /\ opWire' = WirePath(opPath)
            /\ opPc' = "sent"
            /\ UNCHANGED opErr
       ELSE /\ opErr' = NetworkError("failed to create request", "url")
            /\ opPc' = "returned"
            /\ UNCHANGED <<opHttp, opWire>>
    /\ UNCHANGED <<op, arg, opMethod, opPath, opPermits>>
    /\ UNCHANGED outsideOps

\* the first response, or transport failure, of the call
OpRespond(o) ==
    /\ opPc = "sent"
    /\ opErr' = doRequestResult(o)
    /\ opPc' = "returned"
    /\ UNCHANGED <<op, arg, opMethod, opPath, opWire, opPermits, opHttp>>
    /\ UNCHANGED outsideOps

NextOps ==
    \/ OpCall
    \/ \E granted \in BOOLEAN : OpLimiterWait(granted)
    \/ OpDoRequest
    \/ \E o \in OpOutcomes : OpRespond(o)

SpecOps == InitOps /\ [][NextOps]_vars

(***************************************************************************)
(* The construction of one query string: by a list operation from its      *)
(* request, or by a direct call of buildQueryString with any map.          *)
(***************************************************************************)
\* the keys of the request type of a list operation
KeysOf(o) ==
    CASE o = "List" -> {"limit", "offset", "status", "to"}
      [] o = "Account.GetCreditTransactions" -> {"limit", "offset"}
      [] OTHER -> {"limit", "offset", "status"}

\* the maps of the model: any of the keys, each with an empty or non-empty value
ParamMaps ==
    UNION {[keys -> FilterValues] : keys \in SUBSET {"limit", "offset", "status", "to"}}

\* what no action of SpecQuery changes
outsideQuery == <<execVars, clsVars, opsVars, predVars, cfgVars, limVars, cliVars, errVars, whVars, bkVars>>

InitQuery ==
    /\ InitExec
    /\ OffClassify
    /\ OffExcept("query")
    /\ qsPc = "input"
    /\ qsOut = <<>>
    /\ \/ /\ qsCaller \in ListOps
          /\ qsArg \in ArgsOf(qsCaller)
          /\ qsParams = <<>>
       \/ /\ qsCaller = "direct"
          /\ qsArg = NoArg
          /\ qsParams \in ParamMaps

\* the list operation fills params and builds its path
ListBuildsPath ==
    /\ qsPc = "input"
    /\ qsCaller \in ListOps
    /\ qsParams' = ListParams(qsArg, KeysOf(qsCaller))
    /\ qsOut' = PathOf(qsCaller, qsArg)
    /\ qsPc' = "built"
    /\ UNCHANGED <<qsCaller, qsArg>>
    /\ UNCHANGED outsideQuery

\* buildQueryString(qsParams)
BuildQueryString ==
    /\ qsPc = "input"
    /\ qsCaller = "direct"
    /\ qsOut' = buildQueryString(qsParams)
    /\ qsPc' = "built"
    /\ UNCHANGED <<qsCaller, qsArg, qsParams>>
    /\ UNCHANGED outsideQuery

NextQuery ==
    \/ ListBuildsPath
    \/ BuildQueryString

SpecQuery == InitQuery /\ [][NextQuery]_vars

(***************************************************************************)
(* The six predicates of errors.go, applied to one error value.  An error  *)
(* that wraps another has the kind of the wrapped error as its cause;      *)
(* "wrapError" is the wrapper of fmt.Errorf("%w"), "errorString" the       *)
(* error of errors.New.                                                    *)
(***************************************************************************)
\* mutant: errors.As in place of the type assertion
IsValidationErrorAs(err) == err.kind = "ValidationError" \/ err.cause = "ValidationError"

IsAuthenticationError(err) == err.kind = "AuthenticationError"
IsRateLimitError(err) == err.kind = "RateLimitError"
IsInsufficientCreditsError(err) == err.kind = "InsufficientCreditsError"
IsValidationError(err) == err.kind = "ValidationError"
IsNotFoundError(err) == err.kind = "NotFoundError"
IsNetworkError(err) == err.kind = "NetworkError"

\* the predicate of variant v
IsVariant(v, err) ==
    CASE v = "AuthenticationError" -> IsAuthenticationError(err)
      [] v = "RateLimitError" -> IsRateLimitError(err)
      [] v = "InsufficientCreditsError" -> IsInsufficientCreditsError(err)
      [] v = "ValidationError" -> IsValidationError(err)
      [] v = "NotFoundError" -> IsNotFoundError(err)
      [] OTHER -> IsNetworkError(err)

\* the APIError payloads of the model
APIErrors == [code : {"", "invalid_request"}, message : {"", "boom"}]

\* the errors of the model: nil, every variant, errors of other packages,
\* and errors that wrap an error of the library
PredicateInputs ==
    {NoErr, CtxErr, MkErr("errorString", 0, 0, "", "boom", "none")}
    \cup {AuthenticationError(e) : e \in APIErrors}
    \cup {InsufficientCreditsError(e) : e \in APIErrors}
    \cup {ValidationError(e) : e \in APIErrors}
    \cup {NotFoundError(e) : e \in APIErrors}
    \cup {RateLimitError(e, ra) : e \in APIErrors, ra \in 0..MaxRetryAfter}
    \cup {SendlyError(e, st) : e \in APIErrors, st \in {403, 500}}
    \cup {NetworkError("request failed", c) : c \in {"none", "ctx", "transport"} \cup TypedKinds}
    \cup {MkErr("ValidationError", 0, 0, "", "failed to marshal request body", c) :
            c \in {"marshal"} \cup TypedKinds}
    \cup {MkErr("wrapError", 0, 0, "", "boom", c) : c \in TypedKinds}

\* what no action of SpecPredicates changes
outsidePredicates == <<execVars, clsVars, opsVars, qsVars, cfgVars, limVars, cliVars, errVars, whVars, bkVars>>

InitPredicates ==
    /\ InitExec
    /\ OffClassify
    /\ OffExcept("predicates")
    /\ predErr \in PredicateInputs
    /\ predPc = "input"
    /\ predOut = [v \in PredicateVariants |-> FALSE]

\* the caller asks each of the six predicates about predErr
ApplyPredicates ==
    /\ predPc = "input"
    /\ predOut' = [v \in PredicateVariants |-> IsVariant(v, predErr)]
    /\ predPc' = "applied"
    /\ UNCHANGED predErr
    /\ UNCHANGED outsidePredicates

NextPredicates == ApplyPredicates

SpecPredicates == InitPredicates /\ [][NextPredicates]_vars

(***************************************************************************)
(* NewClient and the client options.  An http.Client is an object on a     *)
(* heap, known by its reference; "nil" is the nil pointer.                 *)
(***************************************************************************)
\* most options in one call of NewClient
MaxOpts == 2

MkOption(name, value) == [name |-> name, value |-> value]

\* the options of the model
Options ==
    {MkOption("WithBaseURL", u) : u \in {"", "https://custom.example.com"}}
    \cup {MkOption("WithTimeout", t) : t \in {0, 60}}
    \cup {MkOption("WithHTTPClient", r) : r \in {"nil", "custom"}}
    \cup {MkOption("WithMaxRetries", n) : n \in {0 - 1, 0, 5}}
    \cup {MkOption("WithDebug", b) : b \in BOOLEAN}

\* a configuration under construction: the client, the heap, and whether
\* an option has panicked
MkBuild(c, heap, panicked) == [client |-> c, heap |-> heap, panicked |-> panicked]

\* mutant: WithDebug switches debugging on whatever its argument
ApplyOptionDebugAlwaysOn(b, o) ==
    IF b.panicked THEN b
    ELSE CASE o.name = "WithBaseURL" -> [b EXCEPT !.client.BaseURL = o.value]
           [] o.name = "WithTimeout" ->
                 IF b.client.HTTPClient = "nil"
                 THEN [b EXCEPT !.client.Timeout = o.value, !.panicked = TRUE]
                 ELSE [b EXCEPT !.client.Timeout = o.value,
                                !.heap[b.client.HTTPClient] = o.value]
           [] o.name = "WithHTTPClient" -> [b EXCEPT !.client.HTTPClient = o.value]
           [] o.name = "WithMaxRetries" -> [b EXCEPT !.client.MaxRetries = o.value]
           [] OTHER -> [b EXCEPT !.client.Debug = TRUE]

\* opt(c) for one option: the closures of WithBaseURL, WithTimeout,
\* WithHTTPClient, WithMaxRetries and WithDebug; WithTimeout writes through
\* c.HTTPClient and panics when that is nil
ApplyOption(b, o) ==
    IF b.panicked THEN b
    ELSE CASE o.name = "WithBaseURL" -> [b EXCEPT !.client.BaseURL = o.value]
           [] o.name = "WithTimeout" ->
                 IF b.client.HTTPClient = "nil"
                 THEN [b EXCEPT !.client.Timeout = o.value, !.panicked = TRUE]
                 ELSE [b EXCEPT !.client.Timeout = o.value,
                                !.heap[b.client.HTTPClient] = o.value]
           [] o.name = "WithHTTPClient" -> [b EXCEPT !.client.HTTPClient = o.value]
           [] o.name = "WithMaxRetries" -> [b EXCEPT !.client.MaxRetries = o.value]
           [] OTHER -> [b EXCEPT !.client.Debug = o.value]

\* the loop of NewClient over opts
RECURSIVE ApplyOptions(_, _)
ApplyOptions(b, opts) ==
    IF opts = <<>> THEN b ELSE ApplyOptions(ApplyOption(b, Head(opts)), Tail(opts))

\* what no action of SpecConfig changes
outsideConfig == <<execVars, clsVars, opsVars, qsVars, predVars, limVars, cliVars, errVars, whVars, bkVars>>

InitConfig ==
    /\ InitExec
    /\ OffClassify
    /\ OffExcept("config")
    /\ cfgKey \in {"", "test-api-key"}
    /\ cfgOpts \in SeqsUpTo(Options, MaxOpts)
    /\ cfgPc = "input"
    /\ cfgClient = DefaultClient("")
    /\ cfgHeap = InitialHeap

\* NewClient(cfgKey, cfgOpts...)
NewClient ==
    /\ cfgPc = "input"
    /\ LET b == ApplyOptions(MkBuild(DefaultClient(cfgKey), cfgHeap, FALSE), cfgOpts)
       IN  /\ cfgClient' = b.client
           /\ cfgHeap' = b.heap
           /\ cfgPc' = IF b.panicked THEN "panicked" ELSE "built"
    /\ UNCHANGED <<cfgKey, cfgOpts>>
    /\ UNCHANGED outsideConfig

NextConfig == NewClient

SpecConfig == InitConfig /\ [][NextConfig]_vars

(***************************************************************************)
(* The rate limiter under concurrent calls on one client.  The limiter of  *)
(* rate.NewLimiter(rate.Every(time.Second), 10) is a token bucket: full at *)
(* first use, one token back per second, and a Wait that finds no token    *)
(* reserves the next one and sleeps until it is due.  Calls start on whole *)
(* seconds, contexts are not cancelled, and a round trip takes no time.    *)
(***************************************************************************)
\* Limiter.reserveN(now, 1): the tokens left after the reservation
Reserve(tokens) == tokens - 1

\* the delay of a reservation that left tokens behind
ReserveDelay(tokens) == IF tokens < 0 THEN (0 - tokens) * LimiterDelay ELSE 0

\* Limiter.advance over one second
Advance(tokens) == IF tokens + 1 > LimiterBurst THEN LimiterBurst ELSE tokens + 1

\* what the server does with a request: success, a terminal or a retryable error
CallOutcomes == {"ok", "terminal", "retryable"}

\* what no action of SpecLimiter changes
outsideLimiter == <<execVars, clsVars, opsVars, qsVars, predVars, cfgVars, cliVars, errVars, whVars, bkVars>>

InitLimiter ==
    /\ InitExec
    /\ OffClassify
    /\ OffExcept("limiter")
    /\ limTokens = LimiterBurst
    /\ limClock = 0
    /\ limCalls = [s \in Slots |-> IdleCall]
    /\ limSent = [t \in 0..MaxClock |-> 0]

\* mutant: a permit is taken before every attempt, retries included
LimRetryTakesPermit(s, a) ==
    /\ limTokens' = Reserve(limTokens)
    /\ limCalls' = [limCalls EXCEPT ![s] =
                      IF ReserveDelay(Reserve(limTokens)) = 0
                      THEN MkCall("attempt", a, 0)
                      ELSE MkCall("limiter", a, ReserveDelay(Reserve(limTokens)))]

\* the loop of Client.request goes on to attempt a after its backoff
LimRetry(s, a) ==
    /\ limCalls' = [limCalls EXCEPT ![s] = MkCall("attempt", a, 0)]
    /\ UNCHANGED limTokens

\* goroutine s calls an operation: Client.request up to the retry loop,
\* that is rateLimiter.Wait
LimCall(s) ==
    /\ limCalls[s].pc = "idle"
    /\ limTokens' = Reserve(limTokens)
    /\ limCalls' = [limCalls EXCEPT ![s] =
                      IF ReserveDelay(Reserve(limTokens)) > 0
                      THEN MkCall("limiter", 0, ReserveDelay(Reserve(limTokens)))
                      ELSE IF MaxRetries < 0 THEN IdleCall
                      ELSE MkCall("attempt", 0, 0)]
    /\ UNCHANGED <<limClock, limSent>>
    /\ UNCHANGED outsideLimiter

\* the reserved token of goroutine s is due: Wait returns nil
LimWake(s) ==
    /\ limCalls[s].pc = "limiter"
    /\ limCalls[s].timer = 0
    /\ limCalls' = [limCalls EXCEPT ![s] =
                      IF MaxRetries < limCalls[s].attempt THEN IdleCall
                      ELSE MkCall("attempt", limCalls[s].attempt, 0)]
    /\ UNCHANGED <<limTokens, limClock, limSent>>
    /\ UNCHANGED outsideLimiter

\* doRequest of goroutine s and the rest of the loop body: the request is
\* sent; on a retryable error with budget left the backoff begins
LimSend(s, o) ==
    /\ limCalls[s].pc = "attempt"
    /\ limSent' = [limSent EXCEPT ![limClock] = @ + 1]
    /\ limCalls' = [limCalls EXCEPT ![s] =
                      IF o = "retryable" /\ limCalls[s].attempt < MaxRetries
                      THEN MkCall("backoff", limCalls[s].attempt + 1,
                                  Backoff(limCalls[s].attempt + 1))
                      ELSE IdleCall]
    /\ UNCHANGED <<limTokens, limClock>>
    /\ UNCHANGED outsideLimiter

\* the backoff of goroutine s is over
LimBackoffElapsed(s) ==
    /\ limCalls[s].pc = "backoff"
    /\ limCalls[s].timer = 0
    /\ LimRetry(s, limCalls[s].attempt)
    /\ UNCHANGED <<limClock, limSent>>
    /\ UNCHANGED outsideLimiter

\* one second passes once every goroutine that can run has run
LimTick ==
    /\ limClock < MaxClock
    /\ \A s \in Slots : \/ limCalls[s].pc = "idle"
                        \/ limCalls[s].pc \in {"limiter", "backoff"} /\ limCalls[s].timer > 0
    /\ limClock' = limClock + 1
    /\ limTokens' = Advance(limTokens)
    /\ limCalls' = [s \in Slots |->
                      IF limCalls[s].timer > 0
                      THEN [limCalls[s] EXCEPT !.timer = @ - 1]
                      ELSE limCalls[s]]
    /\ UNCHANGED limSent
    /\ UNCHANGED outsideLimiter

NextLimiter ==
    \/ \E s \in Slots : LimCall(s)
    \/ \E s \in Slots : LimWake(s)
    \/ \E s \in Slots, o \in CallOutcomes : LimSend(s, o)
    \/ \E s \in Slots : LimBackoffElapsed(s)
    \/ LimTick

SpecLimiter == InitLimiter /\ [][NextLimiter]_vars

(***************************************************************************)
(* Two clients.  NewClient allocates a rate.Limiter object for the client  *)
(* it returns; a call on a client draws on the object the client's         *)
(* rateLimiter field refers to.                                            *)
(***************************************************************************)
\* the clients NewClient has returned
Created == {c \in ClientIds : cliClients[c] # 0}

\* mutant: one limiter for the whole process
NewLimiterShared(allocated) == 1

\* rate.NewLimiter in NewClient: a new object, the next free reference
NewLimiter(allocated) == allocated + 1

\* what no action of SpecClients changes
outsideClients == <<execVars, clsVars, opsVars, qsVars, predVars, cfgVars, limVars, errVars, whVars, bkVars>>

InitClients ==
    /\ InitExec
    /\ OffClassify
    /\ OffExcept("clients")
    /\ cliClients = [c \in ClientIds |-> 0]
    /\ cliLimiters = [r \in ClientIds |-> LimiterBurst]
    /\ cliCalls = [c \in ClientIds |-> MkCall("idle", 0, 0)]
    /\ cliOwn = [c \in ClientIds |-> LimiterBurst]
    /\ cliClock = 0

\* NewClient returns client c
CliNewClient(c) ==
    /\ cliClients[c] = 0
    /\ cliClients' = [cliClients EXCEPT ![c] = NewLimiter(Cardinality(Created))]
    /\ UNCHANGED <<cliLimiters, cliCalls, cliOwn, cliClock>>
    /\ UNCHANGED outsideClients

\* an operation is called on client c: Client.request up to the return of
\* rateLimiter.Wait, or to the sleep for a reserved token
CliCall(c) ==
    /\ c \in Created
    /\ cliCalls[c].pc = "idle"
    /\ LET r == cliClients[c]
           left == Reserve(cliLimiters[r])
       IN  /\ cliLimiters' = [cliLimiters EXCEPT ![r] = left]
           /\ cliCalls' = [cliCalls EXCEPT ![c] =
                             IF ReserveDelay(left) > 0
                             THEN MkCall("limiter", 0, ReserveDelay(left))
                             ELSE MkCall("running", 0, 0)]
    /\ cliOwn' = [cliOwn EXCEPT ![c] = Reserve(@)]
    /\ UNCHANGED <<cliClients, cliClock>>
    /\ UNCHANGED outsideClients

\* the reserved token of the call on client c is due
CliWake(c) ==
    /\ cliCalls[c].pc = "limiter"
    /\ cliCalls[c].timer = 0
    /\ cliCalls' = [cliCalls EXCEPT ![c] = MkCall("running", 0, 0)]
    /\ UNCHANGED <<cliClients, cliLimiters, cliOwn, cliClock>>
    /\ UNCHANGED outsideClients

\* the call on client c returns; the retry loop takes no further permit
CliReturn(c) ==
    /\ cliCalls[c].pc = "running"
    /\ cliCalls' = [cliCalls EXCEPT ![c] = MkCall("idle", 0, 0)]
    /\ UNCHANGED <<cliClients, cliLimiters, cliOwn, cliClock>>
    /\ UNCHANGED outsideClients

\* one second passes: every limiter gains a token
CliTick ==
    /\ cliClock < MaxClock
    /\ \A c \in ClientIds : \/ cliCalls[c].pc = "idle"
                            \/ cliCalls[c].pc = "limiter" /\ cliCalls[c].timer > 0
    /\ cliClock' = cliClock + 1
    /\ cliLimiters' = [r \in ClientIds |-> Advance(cliLimiters[r])]
    /\ cliOwn' = [c \in ClientIds |-> Advance(cliOwn[c])]
    /\ cliCalls' = [c \in ClientIds |->
                      IF cliCalls[c].timer > 0
                      THEN [cliCalls[c] EXCEPT !.timer = @ - 1]
                      ELSE cliCalls[c]]
    /\ UNCHANGED cliClients
    /\ UNCHANGED outsideClients

NextClients ==
    \/ \E c \in ClientIds : CliNewClient(c)
    \/ \E c \in ClientIds : CliCall(c)
    \/ \E c \in ClientIds : CliWake(c)
    \/ \E c \in ClientIds : CliReturn(c)
    \/ CliTick

SpecClients == InitClients /\ [][NextClients]_vars

(***************************************************************************)
(* SpecErrors: Error() and Unwrap() of the error variants.  A text is the  *)
(* sequence of the pieces fmt.Sprintf puts together: the literal parts of  *)
(* the format and the rendering of each argument.                          *)
(***************************************************************************)
\* fmt.Sprintf: the verbs of the format take the arguments in order
RECURSIVE Sprintf(_, _)
Sprintf(format, args) ==
    IF format = <<>> THEN <<>>
    ELSE IF Head(format) \in {"%s", "%d", "%v"}
         THEN <<Head(args)>> \o Sprintf(Tail(format), Tail(args))
         ELSE <<Head(format)>> \o Sprintf(Tail(format), args)

\* the Error() text of a wrapped cause
CauseText(c) ==
    CASE c = "ctx" -> "context canceled"
      [] c = "transport" -> "dial tcp: connection refused"
      [] c = "read" -> "unexpected EOF"
      [] c = "unmarshal" -> "invalid character '<' looking for beginning of value"
      [] c = "marshal" -> "json: unsupported type: chan int"
      [] OTHER -> c

\* mutant: the retry-after form is chosen for RetryAfter >= 0
ErrorRetryAfterFromZero(e) ==
    CASE e.kind = "SendlyError" ->
            Sprintf(<<"sendly: ", "%s", " (code: ", "%s", ", status: ", "%d", ")">>,
                    <<e.message, e.code, ToString(e.status)>>)
      [] e.kind = "AuthenticationError" ->
            Sprintf(<<"sendly: ", "authentication failed: ", "%s">>, <<e.message>>)
      [] e.kind = "RateLimitError" ->
            IF e.retryAfter >= 0
            THEN Sprintf(<<"sendly: ", "rate limit exceeded, retry after ", "%d", " seconds">>,
                         <<ToString(e.retryAfter)>>)
            ELSE Sprintf(<<"sendly: ", "rate limit exceeded: ", "%s">>, <<e.message>>)
      [] e.kind = "InsufficientCreditsError" ->
            Sprintf(<<"sendly: ", "insufficient credits: ", "%s">>, <<e.message>>)
      [] e.kind = "ValidationError" ->
            IF e.cause # "none"
            THEN Sprintf(<<"sendly: ", "validation error: ", "%v">>, <<CauseText(e.cause)>>)
            ELSE Sprintf(<<"sendly: ", "validation error: ", "%s">>, <<e.message>>)
      [] e.kind = "NotFoundError" ->
            Sprintf(<<"sendly: ", "not found: ", "%s">>, <<e.message>>)
      [] e.kind = "NetworkError" ->
            IF e.cause # "none"
            THEN Sprintf(<<"sendly: ", "network error: ", "%s", ": ", "%v">>,
                         <<e.message, CauseText(e.cause)>>)
            ELSE Sprintf(<<"sendly: ", "network error: ", "%s">>, <<e.message>>)

\* the Error() method of each variant
Error(e) ==
    CASE e.kind = "SendlyError" ->
            Sprintf(<<"sendly: ", "%s", " (code: ", "%s", ", status: ", "%d", ")">>,
                    <<e.message, e.code, ToString(e.status)>>)
      [] e.kind = "AuthenticationError" ->
            Sprintf(<<"sendly: ", "authentication failed: ", "%s">>, <<e.message>>)
      [] e.kind = "RateLimitError" ->
            IF e.retryAfter > 0
            THEN Sprintf(<<"sendly: ", "rate limit exceeded, retry after ", "%d", " seconds">>,
                         <<ToString(e.retryAfter)>>)
            ELSE Sprintf(<<"sendly: ", "rate limit exceeded: ", "%s">>, <<e.message>>)
      [] e.kind = "InsufficientCreditsError" ->
            Sprintf(<<"sendly: ", "insufficient credits: ", "%s">>, <<e.message>>)
      [] e.kind = "ValidationError" ->
            IF e.cause # "none"
            THEN Sprintf(<<"sendly: ", "validation error: ", "%v">>, <<CauseText(e.cause)>>)
            ELSE Sprintf(<<"sendly: ", "validation error: ", "%s">>, <<e.message>>)
      [] e.kind = "NotFoundError" ->
            Sprintf(<<"sendly: ", "not found: ", "%s">>, <<e.message>>)
      [] e.kind = "NetworkError" ->
            IF e.cause # "none"
            THEN Sprintf(<<"sendly: ", "network error: ", "%s", ": ", "%v">>,
                         <<e.message, CauseText(e.cause)>>)
            ELSE Sprintf(<<"sendly: ", "network error: ", "%s">>, <<e.message>>)

\* mutant: ValidationError has no Unwrap method
UnwrapNetworkOnly(e) ==
    IF e.kind = "NetworkError" THEN e.cause ELSE "none"

\* the Unwrap() methods: ValidationError and NetworkError return Err, the
\* other variants have none
Unwrap(e) ==
    IF e.kind \in {"ValidationError", "NetworkError"} THEN e.cause ELSE "none"

\* the error values of the model: every variant, with and without a
\* message, with every RetryAfter Atoi can give, with and without a cause
ErrorInputs ==
    {AuthenticationError(e) : e \in APIErrors}
    \cup {InsufficientCreditsError(e) : e \in APIErrors}
    \cup {NotFoundError(e) : e \in APIErrors}
    \cup {RateLimitError(e, ra) : e \in APIErrors, ra \in (0 - 1)..MaxRetryAfter}
    \cup {SendlyError(e, st) : e \in APIErrors, st \in {403, 500}}
    \cup {MkErr("ValidationError", 0, 0, e.code, e.message, c) :
            e \in APIErrors, c \in {"none", "marshal"}}
    \cup {NetworkError(m, c) : m \in {"request failed", "rate limiter error"},
                               c \in {"none", "ctx", "transport", "unmarshal"}}

\* what no action of SpecErrors changes
outsideErrors == <<execVars, clsVars, opsVars, qsVars, predVars, cfgVars, limVars, cliVars, whVars, bkVars>>

InitErrors ==
    /\ InitExec
    /\ OffClassify
    /\ OffExcept("errors")
    /\ errVal \in ErrorInputs
    /\ errPc = "input"
    /\ errText = <<>>
    /\ errCause = "none"

\* the caller renders errVal and unwraps it
Render ==
    /\ errPc = "input"
    /\ errText' = Error(errVal)
    /\ errCause' = Unwrap(errVal)
    /\ errPc' = "rendered"
    /\ UNCHANGED errVal
    /\ UNCHANGED outsideErrors

NextErrors == Render

SpecErrors == InitErrors /\ [][NextErrors]_vars

(***************************************************************************)
(* SpecWebhooks: Webhooks.VerifySignature, Webhooks.GenerateSignature and  *)
(* Webhooks.ParseEvent.  A signature is a sequence of characters, with the *)
(* prefix "sha256=" as one of them.  HMAC-SHA256 is a digest of fixed      *)
(* length that differs for any two (secret, payload) pairs of the model.   *)
(***************************************************************************)
\* a complete event
PayloadEvent ==
    "{\"id\":\"evt_1\",\"type\":\"message.sent\",\"created_at\":\"2024-01-01T00:00:00Z\"}"
\* an event without created_at
PayloadNoCreatedAt == "{\"id\":\"evt_1\",\"type\":\"message.sent\"}"
\* an event whose id is the empty string
PayloadEmptyId ==
    "{\"id\":\"\",\"type\":\"message.sent\",\"created_at\":\"2024-01-01T00:00:00Z\"}"
\* an event whose id is a number
PayloadNumberId ==
    "{\"id\":1,\"type\":\"message.sent\",\"created_at\":\"2024-01-01T00:00:00Z\"}"

\* the request bodies and the secrets of the model
Payloads == {"", "{}", "[]", "null", "{", PayloadEvent, PayloadNoCreatedAt,
             PayloadEmptyId, PayloadNumberId}
Secrets == {"", "whsec_a", "whsec_b"}

\* the byte a secret contributes to the digest
KeyByte(secret) ==
    CASE secret = "" -> 27
      [] secret = "whsec_a" -> 90
      [] OTHER -> 201

\* the byte a payload contributes to the digest
MsgByte(payload) ==
    CASE payload = "" -> 4
      [] payload = "{}" -> 172
      [] payload = "[]" -> 63
      [] payload = "null" -> 110
      [] payload = "{" -> 123
      [] payload = PayloadEvent -> 238
      [] payload = PayloadNoCreatedAt -> 17
      [] payload = PayloadEmptyId -> 52
      [] OTHER -> 209

\* mac.Sum(nil) after hmac.New(sha256.New, secret) and mac.Write(payload)
HMACSum(secret, payload) == <<KeyByte(secret), MsgByte(payload)>>

LowerHex == <<"0", "1", "2", "3", "4", "5", "6", "7", "8", "9",
              "a", "b", "c", "d", "e", "f">>

\* hex.EncodeToString: two lower-case digits per byte
EncodeToString(bytes) ==
    Concat([i \in 1..Len(bytes) |->
                <<LowerHex[(bytes[i] \div 16) + 1], LowerHex[(bytes[i] % 16) + 1]>>])

\* Webhooks.GenerateSignature
GenerateSignature(payload, secret) ==
    <<"sha256=">> \o EncodeToString(HMACSum(secret, payload))

\* hmac.Equal: false for different lengths, else all bytes equal
HmacEqual(a, b) ==
    /\ Len(a) = Len(b)
    /\ \A i \in 1..Len(a) : a[i] = b[i]

\* mutant: the check for empty arguments is missing
VerifySignatureWithoutEmptyCheck(payload, signature, secret) ==
    LET expected == <<"sha256=">> \o EncodeToString(HMACSum(secret, payload))
    IN  IF Len(signature) # Len(expected) THEN FALSE
        ELSE HmacEqual(signature, expected)

\* Webhooks.VerifySignature
VerifySignature(payload, signature, secret) ==
    IF payload = "" \/ signature = <<>> \/ secret = "" THEN FALSE
    ELSE LET expected == <<"sha256=">> \o EncodeToString(HMACSum(secret, payload))
         IN  IF Len(signature) # Len(expected) THEN FALSE
             ELSE HmacEqual(signature, expected)

\* a JSON string, a JSON number
JSONString(v) == [t |-> "string", v |-> v]
JSONNumber(v) == [t |-> "number", v |-> v]

\* the JSON text of a payload as encoding/json reads it: not JSON at all,
\* null, an array, or an object with its members
JSONValue(payload) ==
    CASE payload = "{}" -> [kind |-> "object", members |-> <<>>]
      [] payload = "[]" -> [kind |-> "array"]
      [] payload = "null" -> [kind |-> "null"]
      [] payload = PayloadEvent ->
            [kind |-> "object",
             members |-> <<<<"id", JSONString("evt_1")>>,
                           <<"type", JSONString("message.sent")>>,
                           <<"created_at", JSONString("2024-01-01T00:00:00Z")>>>>]
      [] payload = PayloadNoCreatedAt ->
            [kind |-> "object",
             members |-> <<<<"id", JSONString("evt_1")>>,
                           <<"type", JSONString("message.sent")>>>>]
      [] payload = PayloadEmptyId ->
            [kind |-> "object",
             members |-> <<<<"id", JSONString("")>>,
                           <<"type", JSONString("message.sent")>>,
                           <<"created_at", JSONString("2024-01-01T00:00:00Z")>>>>]
      [] payload = PayloadNumberId ->
            [kind |-> "object",
             members |-> <<<<"id", JSONNumber(1)>>,
                           <<"type", JSONString("message.sent")>>,
                           <<"created_at", JSONString("2024-01-01T00:00:00Z")>>>>]
      [] OTHER -> [kind |-> "invalid"]

\* var event WebhookEvent
ZeroEvent == MkEvent("", "", "")

\* the field of WebhookEvent with json tag key, "" for a key without one
FieldOf(key) ==
    CASE key = "id" -> "ID"
      [] key = "type" -> "Type"
      [] key = "created_at" -> "CreatedAt"
      [] OTHER -> ""

\* json.Unmarshal stores the members one after the other; a member of the
\* wrong type is skipped and makes the error of the call
RECURSIVE StoreMembers(_, _)
StoreMembers(r, members) ==
    IF members = <<>> THEN r
    ELSE LET key == Head(members)[1]
             val == Head(members)[2]
         IN  IF FieldOf(key) = "" THEN StoreMembers(r, Tail(members))
             ELSE IF val.t # "string"
             THEN StoreMembers([r EXCEPT !.ok = FALSE], Tail(members))
             ELSE StoreMembers([r EXCEPT !.event[FieldOf(key)] = val.v], Tail(members))

\* json.Unmarshal([]byte(payload), &event): ok is err == nil
Unmarshal(payload) ==
    LET v == JSONValue(payload)
    IN  CASE v.kind = "invalid" -> [ok |-> FALSE, event |-> ZeroEvent]
          [] v.kind = "array" -> [ok |-> FALSE, event |-> ZeroEvent]
          [] v.kind = "null" -> [ok |-> TRUE, event |-> ZeroEvent]
          [] OTHER -> StoreMembers([ok |-> TRUE, event |-> ZeroEvent], v.members)

\* the three errors of ParseEvent
ErrInvalidSignature == MkErr("errorString", 0, 0, "", "invalid webhook signature", "none")
ErrParse == MkErr("wrapError", 0, 0, "", "failed to parse webhook payload", "unmarshal")
ErrStructure == MkErr("errorString", 0, 0, "", "invalid event structure", "none")

\* mutant: the parsed event is returned without looking at its fields
ParseEventWithoutStructureCheck(payload, signature, secret) ==
    IF ~VerifySignature(payload, signature, secret)
    THEN MkParseResult(NilEvent, ErrInvalidSignature, FALSE)
    ELSE LET u == Unmarshal(payload)
         IN  IF ~u.ok THEN MkParseResult(NilEvent, ErrParse, TRUE)
             ELSE MkParseResult(u.event, NoErr, TRUE)

\* Webhooks.ParseEvent
ParseEvent(payload, signature, secret) ==
    IF ~VerifySignature(payload, signature, secret)
    THEN MkParseResult(NilEvent, ErrInvalidSignature, FALSE)
    ELSE LET u == Unmarshal(payload)
         IN  IF ~u.ok THEN MkParseResult(NilEvent, ErrParse, TRUE)
             ELSE IF u.event.ID = "" \/ u.event.Type = "" \/ u.event.CreatedAt = ""
             THEN MkParseResult(NilEvent, ErrStructure, TRUE)
             ELSE MkParseResult(u.event, NoErr, TRUE)

\* the header values of the model: none, the signature of every payload
\* under every secret, and each of those cut short, lengthened and without
\* its prefix
Signatures ==
    LET good == {GenerateSignature(p, s) : p \in Payloads, s \in Secrets}
    IN  {<<>>} \cup good
        \cup {SubSeq(g, 1, Len(g) - 1) : g \in good}
        \cup {g \o <<"0">> : g \in good}
        \cup {Tail(g) : g \in good}

\* what no action of SpecWebhooks changes
outsideWebhooks == <<execVars, clsVars, opsVars, qsVars, predVars, cfgVars, limVars,
                     cliVars, errVars, bkVars>>

InitWebhooks ==
    /\ InitExec
    /\ OffClassify
    /\ OffExcept("webhooks")
    /\ whPayload \in Payloads
    /\ whSignature \in Signatures
    /\ whSecret \in Secrets
    /\ whPc = "input"
    /\ whOut = FALSE
    /\ whResult = NoParseResult

\* the receiver of a webhook verifies its signature
Verify ==
    /\ whPc = "input"
    /\ whOut' = VerifySignature(whPayload, whSignature, whSecret)
    /\ whPc' = "verified"
    /\ UNCHANGED <<whPayload, whSignature, whSecret, whResult>>
    /\ UNCHANGED outsideWebhooks

\* the receiver of a webhook parses it
Parse ==
    /\ whPc = "input"
    /\ whResult' = ParseEvent(whPayload, whSignature, whSecret)
    /\ whPc' = "parsed"
    /\ UNCHANGED <<whPayload, whSignature, whSecret, whOut>>
    /\ UNCHANGED outsideWebhooks

NextWebhooks ==
    \/ Verify
    \/ Parse

SpecWebhooks == InitWebhooks /\ [][NextWebhooks]_vars

(***************************************************************************)
(* SpecBackoff: the backoff of each attempt as Client.request computes it, *)
(* time.Duration(1<<uint(attempt-1)) * time.Second, in int64 arithmetic.   *)
(* A word is the sequence of its bytes, the lowest first; the highest bit  *)
(* of the last byte is the sign.                                           *)
(***************************************************************************)
\* largest MaxRetries of the model
MaxShiftAttempt == 36

\* 1 << n in a word of w bytes: 0 when n is the width or more
ShiftOne(n, w) == [i \in 1..w |-> IF n \div 8 = i - 1 THEN 2 ^ (n % 8) ELSE 0]

\* the sum of a[i] * b[k+1-i] for i from 1 to k: column k of the product
RECURSIVE Column(_, _, _, _)
Column(a, b, k, i) ==
    IF i > k THEN 0 ELSE a[i] * b[k + 1 - i] + Column(a, b, k, i + 1)

\* the bytes of the product from byte k on, with carry c; what does not
\* fit the width of a is lost
RECURSIVE MulFrom(_, _, _, _)
MulFrom(a, b, k, c) ==
    IF k > Len(a) THEN <<>>
    ELSE LET t == Column(a, b, k, 1) + c
         IN  <<t % 256>> \o MulFrom(a, b, k + 1, t \div 256)

\* a * b in the width of a and b
Mul(a, b) == MulFrom(a, b, 1, 0)

\* the backoff expression of Client.request in words of w bytes
BackoffIn(a, w) == Mul(ShiftOne(a - 1, w), ToWord(Second, w))

\* mutant: the shift count is attempt, not attempt - 1
BackoffDurationShiftsByAttempt(a) == Mul(ShiftOne(a, WordBytes), ToWord(Second, WordBytes))

\* backoff := time.Duration(1<<uint(attempt-1)) * time.Second
BackoffDuration(a) == BackoffIn(a, WordBytes)

\* what no action of SpecBackoff changes
outsideBackoff == <<execVars, clsVars, opsVars, qsVars, predVars, cfgVars, limVars,
                    cliVars, errVars, whVars>>

InitBackoff ==
    /\ InitExec
    /\ OffClassify
    /\ OffExcept("backoff")
    /\ bkMaxRetries \in 0..MaxShiftAttempt
    /\ bkAttempt = 0
    /\ bkDelay = ToWord(0, WordBytes)
    /\ bkPrev = ToWord(0, WordBytes)

\* the loop of Client.request moves on to the next attempt and computes
\* its backoff
NextAttempt ==
    /\ bkAttempt < bkMaxRetries
    /\ bkAttempt' = bkAttempt + 1
    /\ bkPrev' = bkDelay
    /\ bkDelay' = BackoffDuration(bkAttempt + 1)
    /\ UNCHANGED bkMaxRetries
    /\ UNCHANGED outsideBackoff

NextBackoff == NextAttempt

SpecBackoff == InitBackoff /\ [][NextBackoff]_vars

(***************************************************************************)
(* Vocabulary of the properties.                                           *)
(***************************************************************************)
\* Client.request was entered and has returned (Send did not reject req)
RequestReturned == pc = "done" /\ sendErr = retErr

LastEntry == results[Len(results)]

\* statuses whose error ends the call
TerminalStatuses == {401, 402, 404, 400, 422}

\* the variant section 4.1 of the specification gives a status
VariantOf(st) ==
    CASE st = 401 -> "AuthenticationError"
      [] st = 402 -> "InsufficientCreditsError"
      [] st = 404 -> "NotFoundError"
      [] st \in {400, 422} -> "ValidationError"
      [] st = 429 -> "RateLimitError"
      [] OTHER -> "SendlyError"

\* the variants the executor retries
RetryableKinds == {"RateLimitError", "SendlyError", "NetworkError"}

\* the error is, or wraps, the context's error (errors.Is finds it)
CancellationClassified(err) ==
    \/ err.kind = "ctxErr"
    \/ err.kind = "NetworkError" /\ err.cause = "ctx"

(***************************************************************************)
(* C1.                                                                     *)
(***************************************************************************)
\* C1 as stated: whenever some HTTP attempt of a call got 401, 402, 404, 400
\* or 422, the call made exactly 1 HTTP attempt and returned that attempt's
\* error.
C1_ExactlyOneAttempt ==
    (\E i \in 1..Len(results) : results[i].http \in TerminalStatuses)
        => /\ httpAttempts = 1
           /\ pc = "done"
           /\ retErr = lastResult

\* C1 amended: an HTTP attempt that gets 401, 402, 404, 400 or 422 is the
\* last attempt of its call whatever budget is left: the call has returned
\* that attempt's error, of the variant of the status, and when it is the
\* first attempt exactly 1 HTTP attempt was made.
C1_TerminalStatusEndsCall ==
    \A i \in 1..Len(results) :
        results[i].http \in TerminalStatuses
            => /\ i = Len(results)
               /\ pc = "done"
               /\ retErr = lastResult
               /\ retErr.kind = VariantOf(results[i].http)
               /\ httpAttempts = i
               /\ sendErr = retErr /\ sendResult = "nil"

\* a 404 on the second attempt of a client with budget left ends the call
C1_Witness ==
    /\ pc = "done"
    /\ MaxRetries >= 2
    /\ Len(results) = 2
    /\ results[1].http = 503
    /\ results[2].http = 404
    /\ retErr.kind = "NotFoundError"
    /\ httpAttempts = 2

(***************************************************************************)
(* C2.                                                                     *)
(***************************************************************************)
\* C2: with MaxRetries = N >= 0, a context that is never cancelled and a
\* server answering every attempt with a status >= 500, the call makes
\* exactly N+1 HTTP attempts and returns a SendlyError whose StatusCode is
\* the status of the final attempt.
C2_ServerErrorsUseWholeBudget ==
    (/\ RequestReturned
     /\ ~ctxDone
     /\ MaxRetries >= 0
     /\ \A i \in 1..Len(results) : results[i].http >= 500)
        => /\ httpAttempts = MaxRetries + 1
           /\ Len(results) = MaxRetries + 1
           /\ retErr.kind = "SendlyError"
           /\ retErr.status = LastEntry.http
           /\ retErr = lastResult

\* 500 on every attempt but the last, 503 on the last, whole budget used
C2_Witness ==
    /\ RequestReturned
    /\ ~ctxDone
    /\ MaxRetries = MaxBudget
    /\ httpAttempts = MaxBudget + 1
    /\ \A i \in 1..(Len(results) - 1) : results[i].http = 500
    /\ LastEntry.http = 503
    /\ retErr.kind = "SendlyError"
    /\ retErr.status = 503

(***************************************************************************)
(* C3.                                                                     *)
(***************************************************************************)
\* C3: with MaxRetries >= 1, the HTTP attempt after a 429 with
\* Retry-After = r > 0 starts at least r seconds after that 429; and when
\* all MaxRetries+1 attempts got 429 the call returns a RateLimitError
\* whose RetryAfter is that of the last 429.
C3_RetryAfterHonoured ==
    /\ (/\ pc = "inflight"
        /\ results # <<>>
        /\ LastEntry.kind = "RateLimitError"
        /\ LastEntry.retryAfter > 0)
            => gap >= LastEntry.retryAfter
    /\ (/\ RequestReturned
        /\ MaxRetries >= 1
        /\ Len(results) = MaxRetries + 1
        /\ \A i \in 1..Len(results) : results[i].http = 429)
            => /\ retErr.kind = "RateLimitError"
               /\ retErr.retryAfter = LastEntry.retryAfter

\* the same with a context that is not cancelled: holds of the code
C3_RetryAfterHonouredUncancelled ==
    /\ (/\ pc = "inflight"
        /\ results # <<>>
        /\ LastEntry.kind = "RateLimitError"
        /\ LastEntry.retryAfter > 0)
            => gap >= LastEntry.retryAfter
    /\ (/\ RequestReturned
        /\ ~ctxDone
        /\ MaxRetries >= 1
        /\ Len(results) = MaxRetries + 1
        /\ \A i \in 1..Len(results) : results[i].http = 429)
            => /\ retErr.kind = "RateLimitError"
               /\ retErr.retryAfter = LastEntry.retryAfter
               /\ retErr = lastResult

(***************************************************************************)
(* C4.                                                                     *)
(***************************************************************************)
\* C4: when the context is cancelled during the backoff wait that follows
\* a 500 response, no further HTTP request is sent and the call returns an
\* error that is classified as the cancellation, not the pending
\* SendlyError 500.
C4_CancelDuringBackoff ==
    (/\ cancelInfo.at = "backoff"
     /\ cancelInfo.pending.kind = "SendlyError"
     /\ cancelInfo.pending.status = 500)
        => /\ httpAttempts = cancelInfo.attempts
           /\ pc = "done" => /\ CancellationClassified(retErr)
                             /\ retErr # cancelInfo.pending
                             /\ retErr.kind # "SendlyError"

\* cancelled in the backoff after a 500, the call returned ctx.Err()
C4_Witness ==
    /\ pc = "done"
    /\ cancelInfo.at = "backoff"
    /\ cancelInfo.pending.kind = "SendlyError"
    /\ cancelInfo.pending.status = 500
    /\ cancelInfo.attempts = 1
    /\ httpAttempts = 1
    /\ retErr = CtxErr

(***************************************************************************)
(* C5.                                                                     *)
(***************************************************************************)
\* C5: once the context is cancelled at a suspension point (limiter wait,
\* backoff wait, Retry-After wait, HTTP round trip), no further HTTP
\* request is sent and the call returns a cancellation error; in the retry
\* loop that error is none of the retryable variants, on the last permitted
\* attempt as on an earlier one.  (The limiter wait is allowed the
\* NetworkError that wraps the context's error, as C6 has it.)
C5_CancellationIsDistinctOutcome ==
    cancelInfo.at \in {"limiter", "backoff", "rawait", "inflight"}
        => /\ httpAttempts = cancelInfo.attempts
           /\ pc = "done"
                => /\ CancellationClassified(retErr)
                   /\ cancelInfo.at # "limiter" => retErr.kind \notin RetryableKinds

(***************************************************************************)
(* C6.                                                                     *)
(***************************************************************************)
\* C6: when the context is already cancelled at the call, or is cancelled
\* while Client.request waits for the limiter's permit, no HTTP request is
\* sent and the call returns a NetworkError wrapping the context's error.
C6_CancelAtLimiter ==
    (/\ cancelInfo.at \in {"before", "request", "limiter"}
     /\ pc = "done" => RequestReturned)
        => /\ httpAttempts = 0
           /\ results = <<>>
           /\ pc = "done" => /\ retErr.kind = "NetworkError"
                             /\ retErr.cause = "ctx"
                             /\ retErr.message = "rate limiter error"

\* cancelled during the wait for a delayed permit
C6_Witness ==
    /\ RequestReturned
    /\ cancelInfo.at = "limiter"
    /\ retErr.kind = "NetworkError"
    /\ retErr.cause = "ctx"
    /\ httpAttempts = 0

(***************************************************************************)
(* C7.                                                                     *)
(***************************************************************************)
\* C7: handleErrorResponse gives every (status >= 400, Retry-After, body)
\* exactly one variant: 401 Authentication, 402 InsufficientCredits, 404
\* NotFound, 400 and 422 Validation, 429 RateLimit with RetryAfter the
\* header's integer (0 when absent), any other status SendlyError with that
\* status; an unparseable body is carried raw as the message.
C7_ClassificationTotal ==
    clsPc = "classified"
        => /\ clsErr.kind \in TypedKinds
           /\ clsErr.kind = VariantOf(clsStatus)
           /\ clsStatus = 429
                => /\ clsHeader = <<>> => clsErr.retryAfter = 0
                   /\ \A n \in 0..MaxRetryAfter :
                        clsHeader = Itoa(n) => clsErr.retryAfter = n
           /\ clsStatus # 429 => clsErr.retryAfter = 0
           /\ clsErr.kind = "SendlyError" => clsErr.status = clsStatus
           /\ ~clsBody.valid => clsErr.message = clsBody.raw
           /\ clsBody.valid => clsErr.message = clsBody.message

\* a 429 with the largest Retry-After and a body that is not JSON
C7_Witness ==
    /\ clsPc = "classified"
    /\ clsStatus = 429
    /\ clsHeader = Itoa(MaxRetryAfter)
    /\ clsBody = BodyHTML
    /\ clsErr.kind = "RateLimitError"
    /\ clsErr.retryAfter = MaxRetryAfter
    /\ clsErr.message = BodyHTML.raw

(***************************************************************************)
(* C8.                                                                     *)
(***************************************************************************)
\* C8: every error Client.request returns is one of the seven typed
\* variants.
C8_EveryErrorTyped ==
    (RequestReturned /\ retErr # NoErr) => retErr.kind \in TypedKinds

(***************************************************************************)
(* C9.                                                                     *)
(***************************************************************************)
\* C9: a finished Send has returned either a result and a nil error, or a
\* nil result and an error; never both, never neither.
C9_ResultXorError ==
    /\ pc = "done" => \/ sendResult = "resp" /\ sendErr = NoErr
                      \/ sendResult = "nil" /\ sendErr # NoErr
    /\ pc # "done" => sendResult = "none" /\ sendErr = NoErr

\* a Send that failed after the whole budget: error and no result
C9_Witness ==
    /\ pc = "done"
    /\ MaxRetries >= 1
    /\ httpAttempts = MaxRetries + 1
    /\ sendResult = "nil"
    /\ sendErr.kind = "SendlyError"

(***************************************************************************)
(* C10.                                                                    *)
(***************************************************************************)
\* C10: when all MaxRetries+1 attempts of a call failed with retryable
\* errors, the call returns the error of the final attempt, never nil.
C10_LastErrorReturned ==
    (/\ RequestReturned
     /\ MaxRetries >= 0
     /\ Len(results) = MaxRetries + 1
     /\ \A i \in 1..Len(results) : results[i].kind \in RetryableKinds)
        => /\ retErr # NoErr
           /\ retErr = lastResult

\* the same with a context that is not cancelled: holds of the code
C10_LastErrorReturnedUncancelled ==
    (/\ RequestReturned
     /\ ~ctxDone
     /\ MaxRetries >= 0
     /\ Len(results) = MaxRetries + 1
     /\ \A i \in 1..Len(results) : results[i].kind \in RetryableKinds)
        => /\ retErr # NoErr
           /\ retErr = lastResult

(***************************************************************************)
(* C11.                                                                    *)
(***************************************************************************)
\* the operations of MessagesService that validate their input locally
ValidatingOps == {"Send", "Schedule", "Get", "GetScheduled", "CancelScheduled", "GetBatch"}

\* the first missing part of the input of operation o, in the order
\* request, to, text, scheduledAt; "id" for an empty identifier
FirstMissing(o, a) ==
    IF o \in {"Send", "Schedule"}
    THEN IF a.isNil THEN "request"
         ELSE IF a.to = "" THEN "to"
         ELSE IF a.text = "" THEN "text"
         ELSE IF o = "Schedule" /\ a.scheduledAt = "" THEN "scheduledAt"
         ELSE "none"
    ELSE IF a.id = <<>> THEN "id" ELSE "none"

\* the message that names what is missing
MissingMessage(o, missing) ==
    CASE missing = "request" -> "request is required"
      [] missing = "to" -> "to is required"
      [] missing = "text" -> "text is required"
      [] missing = "scheduledAt" -> "scheduledAt is required"
      [] missing = "id" /\ o = "Get" -> "message ID is required"
      [] missing = "id" /\ o = "GetBatch" -> "batch ID is required"
      [] OTHER -> "scheduled message ID is required"

\* C11: Send, Schedule, Get, GetScheduled, CancelScheduled and GetBatch
\* answer every locally invalid input with a ValidationError whose message
\* names the first missing part (order: request, to, text, scheduledAt),
\* having sent no HTTP request and taken no rate-limiter permit.
C11_LocalValidation ==
    (op \in ValidatingOps /\ opPc # "called" /\ FirstMissing(op, arg) # "none")
    => /\ opPc = "returned"
       /\ opErr.kind = "ValidationError"
       /\ opErr.message = MissingMessage(op, FirstMissing(op, arg))
       /\ opHttp = 0
       /\ opPermits = 0

\* Schedule has rejected a request that lacks both text and scheduledAt
C11_Witness ==
    /\ op = "Schedule"
    /\ opPc = "returned"
    /\ ~arg.isNil /\ arg.to # "" /\ arg.text = "" /\ arg.scheduledAt = ""
    /\ opErr.message = "text is required"
    /\ opHttp = 0

(***************************************************************************)
(* C12.                                                                    *)
(***************************************************************************)
\* the zero-based indices of the invalid items of a batch
InvalidItems(msgs) == {i \in 0..(Len(msgs) - 1) : msgs[i + 1].to = "" \/ msgs[i + 1].text = ""}

Smallest(S) == CHOOSE i \in S : \A j \in S : i <= j

\* the message for the invalid item at index i
ItemMessage(msgs, i) ==
    (IF msgs[i + 1].to = "" THEN "to" ELSE "text")
    \o " is required for message at index " \o ToString(i)

\* C12: SendBatch validates every item before any network call: a batch
\* with an invalid item is answered with a ValidationError naming the
\* smallest index of an invalid item (to before text), a nil or empty
\* batch with a ValidationError, in each case with no request sent; a
\* request is sent only for a batch whose items are all valid.
C12_BatchValidation ==
    (op = "SendBatch" /\ opPc # "called")
    => LET msgs == arg.messages
           rejected == arg.isNil \/ Len(msgs) = 0 \/ InvalidItems(msgs) # {}
       IN  /\ rejected => /\ opPc = "returned"
                          /\ opErr.kind = "ValidationError"
                          /\ opHttp = 0
           /\ (~arg.isNil /\ InvalidItems(msgs) # {})
              => opErr.message = ItemMessage(msgs, Smallest(InvalidItems(msgs)))
           /\ opHttp > 0 => ~rejected

\* a batch of three whose first item is valid and whose other two are not
C12_Witness ==
    /\ op = "SendBatch"
    /\ opPc = "returned"
    /\ Len(arg.messages) = 3
    /\ InvalidItems(arg.messages) = {1, 2}
    /\ opErr.message = "to is required for message at index 1"
    /\ opHttp = 0

(***************************************************************************)
(* C17.                                                                    *)
(***************************************************************************)
\* the fixed part of the path of an operation that takes an identifier
IdPrefix(o) ==
    CASE o = "Get" -> <<"/", "messages", "/">>
      [] o \in {"GetScheduled", "CancelScheduled"} -> <<"/", "messages", "/", "scheduled", "/">>
      [] o = "GetBatch" -> <<"/", "messages", "/", "batch", "/">>
      [] o \in {"Account.GetAPIKey", "Account.GetAPIKeyUsage"} -> <<"/", "keys", "/">>
      [] OTHER -> <<"/", "account", "/", "keys", "/">>

\* what follows the fixed prefix in the path the server received
IdSegment == SubSeq(opWire, Len(IdPrefix(op)) + 1, Len(opWire))

\* C17: for Get, GetScheduled, CancelScheduled and GetBatch the path the
\* server receives is the operation's fixed prefix followed by exactly one
\* non-empty segment, free of "/", "?" and "#", that unescapes to the
\* identifier: every "/" of the identifier travels as %2F.
C17_IdentifierIsOneSegment ==
    (op \in IdOps /\ opHttp > 0)
    => /\ HasPrefix(opWire, IdPrefix(op))
       /\ IdSegment # <<>>
       /\ Count(IdSegment, "/") = 0 /\ Count(IdSegment, "?") = 0 /\ Count(IdSegment, "#") = 0
       /\ PathUnescape(IdSegment) = arg.id
       /\ opWire = opPath

\* Get was called with the identifier m/m and its request has been sent
C17_Witness ==
    /\ op = "Get"
    /\ arg.id = <<"m", "/", "m">>
    /\ opPc = "sent"
    /\ opWire = <<"/", "messages", "/", "m", "%", "2", "F", "m">>

(***************************************************************************)
(* C18.                                                                    *)
(***************************************************************************)
\* the argument a with its identifier replaced
WithId(a, id) == [a EXCEPT !.id = id]

\* C18 (as stated; the AccountService operations violate it): whatever the
\* identifier, the path of the request has as many segments as the path
\* for an identifier without "/".
C18_IdentifierNeverAddsSegments ==
    (op \in IdOps \cup AccountIdOps /\ opHttp > 0)
    => Segments(opWire) = Segments(WirePath(PathOf(op, WithId(arg, <<"m">>))))

(***************************************************************************)
(* C19.                                                                    *)
(***************************************************************************)
\* the operation was called with its identifier or mandatory string empty
MandatoryEmpty ==
    \/ op \in IdOps \cup AccountIdOps /\ arg.id = <<>>
    \/ op = "Account.CreateAPIKey" /\ arg.name = ""
    \/ op \in {"Send", "Schedule"} /\ FirstMissing(op, arg) # "none"

\* C19 (as stated; GetAPIKey and GetAPIKeyUsage violate it): an operation
\* called with an empty identifier or mandatory string returns a
\* ValidationError and sends no HTTP request.
C19_EmptyRejectedLocally ==
    (MandatoryEmpty /\ opPc # "called")
    => /\ opPc = "returned"
       /\ opErr.kind = "ValidationError"
       /\ opHttp = 0

(***************************************************************************)
(* C20.                                                                    *)
(***************************************************************************)
\* the keys whose filter is set: a non-empty string, a limit or offset > 0
\* of a request that is not nil; for a direct call the non-empty values
FiltersSet ==
    IF qsCaller = "direct" THEN {k \in DOMAIN qsParams : qsParams[k] # <<>>}
    ELSE IF qsArg.isNil THEN {}
    ELSE {k \in KeysOf(qsCaller) : \/ k = "limit" /\ qsArg.list.limit > 0
                                   \/ k = "offset" /\ qsArg.list.offset > 0
                                   \/ k = "status" /\ qsArg.list.status # <<>>
                                   \/ k = "to" /\ qsArg.list.to # <<>>}

\* C20: in what a list operation or buildQueryString builds, a key appears
\* if and only if its filter is set, no key appears twice, and there is
\* no "?" at all when no filter is set or the request is nil.
C20_QueryHasExactlySetFilters ==
    qsPc = "built"
    => /\ \A i \in 1..Len(QueryKeys) :
            Count(qsOut, QueryKeys[i]) = (IF QueryKeys[i] \in FiltersSet THEN 1 ELSE 0)
       /\ Count(qsOut, "?") = (IF FiltersSet = {} THEN 0 ELSE 1)
       /\ Count(qsOut, "=") = Cardinality(FiltersSet)

\* List has built its path from a request with a limit and a status, a
\* negative offset and no recipient
C20_Witness ==
    /\ qsCaller = "List"
    /\ qsPc = "built"
    /\ qsArg.list.limit = 2 /\ qsArg.list.offset < 0
    /\ qsArg.list.status = <<"&">> /\ qsArg.list.to = <<>>
    /\ qsOut = <<"/", "messages", "?", "limit", "=", "2", "&", "status", "=", "%", "2", "6">>

(***************************************************************************)
(* C16.                                                                    *)
(***************************************************************************)
\* C16: each of the six predicates is true exactly when the dynamic type
\* of the error is its variant: false for nil, for every other variant
\* (SendlyError included), for errors of other packages and for an error
\* that only wraps the variant; so at most one predicate is true.
C16_PredicatesExact ==
    predPc = "applied"
    => /\ \A v \in PredicateVariants : predOut[v] <=> (predErr.kind = v)
       /\ Cardinality({v \in PredicateVariants : predOut[v]}) <= 1
       /\ predErr.kind \in {"nil", "SendlyError", "ctxErr", "errorString", "wrapError"}
          => \A v \in PredicateVariants : ~predOut[v]

\* the predicates were asked about a NetworkError that wraps a
\* ValidationError: IsNetworkError alone is true
C16_Witness ==
    /\ predPc = "applied"
    /\ predErr.kind = "NetworkError"
    /\ predErr.cause = "ValidationError"
    /\ predOut["NetworkError"]
    /\ ~predOut["ValidationError"]

(***************************************************************************)
(* C15.                                                                    *)
(***************************************************************************)
\* the positions of the options called name in cfgOpts
Given(name) == {i \in 1..Len(cfgOpts) : cfgOpts[i].name = name}

\* the value of the last option called name, or the default
Configured(name, default) ==
    IF Given(name) = {} THEN default
    ELSE cfgOpts[CHOOSE i \in Given(name) : \A j \in Given(name) : j <= i].value

\* C15: the client NewClient returns has APIKey = apiKey and, in every
\* field, the value of the option given for it (the last one, if given
\* more than once) or else the default: BaseURL = DefaultBaseURL, Timeout =
\* 30s, MaxRetries = 3, Debug = false, HTTPClient = the client of NewClient
\* with the same timeout.  HTTPClient is the very client handed to
\* WithHTTPClient, and without WithTimeout no http.Client is modified.
C15_ConfigurationRoundTrip ==
    cfgPc = "built"
    => /\ cfgClient.APIKey = cfgKey
       /\ cfgClient.BaseURL = Configured("WithBaseURL", "https://sendly.live/api/v1")
       /\ cfgClient.Timeout = Configured("WithTimeout", DefaultTimeout)
       /\ cfgClient.MaxRetries = Configured("WithMaxRetries", DefaultMaxRetries)
       /\ cfgClient.Debug = Configured("WithDebug", FALSE)
       /\ cfgClient.HTTPClient = Configured("WithHTTPClient", "default")
       /\ Given("WithTimeout") = {} => cfgHeap = InitialHeap
       /\ Given("WithHTTPClient") = {} => cfgHeap["default"] = cfgClient.Timeout

\* NewClient has returned for WithHTTPClient(custom), WithMaxRetries(-1)
C15_Witness ==
    /\ cfgPc = "built"
    /\ cfgOpts = <<MkOption("WithHTTPClient", "custom"), MkOption("WithMaxRetries", 0 - 1)>>
    /\ cfgClient = MkClient("https://sendly.live/api/v1", cfgKey, "custom", 0 - 1,
                            DefaultTimeout, FALSE)
    /\ cfgHeap["custom"] = CustomTimeout

(***************************************************************************)
(* C13.                                                                    *)
(***************************************************************************)
\* HTTP requests the client sent in the seconds a..b
RECURSIVE SentIn(_, _)
SentIn(a, b) == IF a > b THEN 0 ELSE limSent[a] + SentIn(a + 1, b)

\* C13 (as stated; the code violates it): whatever the interleaving of the
\* calls on one client, the HTTP requests sent in any window of time,
\* retries included, number at most burst + rate x window.
C13_AttemptRateCapped ==
    \A a \in 0..MaxClock : \A b \in a..MaxClock :
        SentIn(a, b) * LimiterDelay <= LimiterBurst * LimiterDelay + (b - a)

(***************************************************************************)
(* C14.                                                                    *)
(***************************************************************************)
\* C14: each client has a rate limiter of its own: no two clients refer
\* to the same limiter, and the limiter of a client holds at every moment
\* the tokens it would hold if the client's own calls (and time) were all
\* that ever touched it; so the delay of a call, which is a function of
\* these tokens, never depends on calls on another client.
C14_LimiterPerClient ==
    /\ \A c, d \in Created : c # d => cliClients[c] # cliClients[d]
    /\ \A c \in Created : cliLimiters[cliClients[c]] = cliOwn[c]
    /\ \A c \in Created :
          cliCalls[c].pc = "limiter" => cliCalls[c].timer <= ReserveDelay(cliOwn[c])

\* client 1 has used up its burst and its next call sleeps, while a call
\* on client 2 got the first token of client 2 at once
C14_Witness ==
    /\ Created = ClientIds
    /\ cliLimiters[cliClients[1]] < 0
    /\ cliCalls[1].pc = "limiter"
    /\ cliCalls[2].pc = "running"
    /\ cliLimiters[cliClients[2]] = LimiterBurst - 1

(***************************************************************************)
(* C22.                                                                    *)
(***************************************************************************)
\* C22: every HTTP request of a call, the first one and each retry, carries
\* Authorization = "Bearer " + APIKey, Content-Type = application/json,
\* Accept = application/json and User-Agent = "sendly-go/" + Version; every
\* HTTP attempt is in the log of requests.
C22_HeadersOnEveryAttempt ==
    /\ Len(requests) = httpAttempts
    /\ \A i \in 1..Len(requests) :
        /\ requests[i].Authorization = "Bearer " \o APIKey
        /\ requests[i].ContentType = "application/json"
        /\ requests[i].Accept = "application/json"
        /\ requests[i].UserAgent = "sendly-go/1.2.0"

\* a call that sent its first request and two retries, with a key
C22_Witness ==
    /\ APIKey = "test-api-key"
    /\ Len(requests) = 3
    /\ requests[3].Authorization = "Bearer test-api-key"
    /\ results[1].http = 500
    /\ results[2].kind = "NetworkError"

(***************************************************************************)
(* C26.                                                                    *)
(***************************************************************************)
\* C26: a call acquires one permit from the rate limiter, before attempt 0:
\* the call holds exactly one permit from the head of the retry loop to its
\* return, whatever the number of retries; a call rejected by local
\* validation holds none, and no call ever holds more than one.  (A call
\* whose context ends at the limiter fails there, with no permit.)
C26_OnePermitPerCall ==
    /\ permits \in {0, 1}
    /\ pc \in {"attempt", "inflight", "backoff", "rawait"} => permits = 1
    /\ (httpAttempts > 0 \/ results # <<>>) => permits = 1
    /\ (RequestReturned /\ ~(retErr.kind = "NetworkError" /\ retErr.message = "rate limiter error"))
            => permits = 1
    /\ (pc = "done" /\ ~RequestReturned) => permits = 0
    /\ pc \in {"idle", "request", "limiter"} => permits = 0

\* a call that made two retries and returned holds one permit
C26_Witness ==
    /\ RequestReturned
    /\ httpAttempts = 3
    /\ permits = 1

\* a call rejected by local validation holds none
C26_WitnessRejected ==
    /\ pc = "done"
    /\ sendErr.kind = "ValidationError"
    /\ results = <<>>
    /\ permits = 0

(***************************************************************************)
(* C25.                                                                    *)
(***************************************************************************)
\* the variants that end a call
TerminalKinds == {"AuthenticationError", "ValidationError", "NotFoundError",
                  "InsufficientCreditsError"}

\* C25: at whichever attempt an error occurs, the call ends on it if and
\* only if its variant is Authentication, Validation, NotFound or
\* InsufficientCredits: a terminal error is the last result and is what the
\* call returns; a RateLimit, Generic (403, 500, 503) or Network error of an
\* attempt before the last of the budget is never what ends the call (the
\* call moves on to the next attempt, or ends on the context's own error),
\* and a call that returned with its context live ended on a success, on a
\* terminal error or on the last attempt of the budget.
C25_EndsIffTerminalVariant ==
    /\ \A i \in 1..Len(results) :
        /\ results[i].kind \in TerminalKinds \cup RetryableKinds \cup {"nil"}
        /\ results[i].http \in {403, 500, 503} => results[i].kind = "SendlyError"
        /\ results[i].http = 429 => results[i].kind = "RateLimitError"
        /\ results[i].kind \in TerminalKinds
              => /\ i = Len(results)
                 /\ RequestReturned
                 /\ retErr = lastResult
        /\ (results[i].kind \in RetryableKinds /\ i <= MaxRetries)
              => /\ i = Len(results) => (pc \in {"rawait", "backoff", "attempt", "inflight"}
                                          \/ (RequestReturned /\ retErr = CtxErr /\ ctxDone))
                 /\ (i = Len(results) /\ ~ctxDone) => pc \in {"rawait", "backoff", "attempt", "inflight"}
    /\ (RequestReturned /\ ~ctxDone /\ results # <<>>)
          => \/ LastEntry.kind \in TerminalKinds \cup {"nil"}
             \/ Len(results) = MaxRetries + 1

\* a 403 on attempt 0 and a transport failure on attempt 1 were both
\* followed by another attempt; the 422 of attempt 2 ended the call
C25_Witness ==
    /\ RequestReturned
    /\ MaxRetries = 2
    /\ Len(results) = 3
    /\ results[1].http = 403
    /\ results[2].cause = "transport"
    /\ results[3].http = 422
    /\ retErr.kind = "ValidationError"

(***************************************************************************)
(* C28.                                                                    *)
(***************************************************************************)
\* C28: an attempt that gets a status < 400 with a decodable or empty body
\* ends the call with success at once: when the first success is the k+1-th
\* result, all earlier results are retryable failures, exactly k+1 HTTP
\* attempts were made, k <= MaxRetries, and Send returns the result with a
\* nil error (the earlier errors are discarded).
C28_FirstSuccessEndsCall ==
    \A i \in 1..Len(results) :
        /\ (results[i].http \in 1..399 /\ results[i].cause # "unmarshal")
              => results[i].kind = "nil"
        /\ results[i].kind = "nil"
              => /\ results[i].http \in 1..399
                 /\ i = Len(results)
                 /\ i <= MaxRetries + 1
                 /\ httpAttempts = i
                 /\ \A j \in 1..(i - 1) : results[j].kind \in RetryableKinds
                 /\ pc = "done"
                 /\ retErr = NoErr
                 /\ sendErr = NoErr
                 /\ sendResult = "resp"

\* a 500, a transport failure, then a 200 on the last attempt of the budget
C28_Witness ==
    /\ pc = "done"
    /\ MaxRetries = 2
    /\ Len(results) = 3
    /\ results[1].http = 500
    /\ results[2].kind = "NetworkError"
    /\ results[3].http = 200
    /\ results[3].kind = "nil"
    /\ httpAttempts = 3
    /\ sendErr = NoErr

(***************************************************************************)
(* C29.                                                                    *)
(***************************************************************************)
\* C29: a response with status < 400 whose non-empty body cannot be decoded
\* is a NetworkError and is retried like a transport failure: before the
\* last attempt of the budget the call does not end on it, and the request
\* sent next is the same request.
C29_UndecodableSuccessRetried ==
    \A i \in 1..Len(results) :
        (results[i].http \in 1..399 /\ results[i].kind # "nil")
            => /\ results[i].kind = "NetworkError"
               /\ results[i].cause = "unmarshal"
               /\ (i <= MaxRetries /\ i = Len(results))
                     => \/ pc \in {"backoff", "attempt", "inflight"}
                        \/ RequestReturned /\ retErr = CtxErr /\ ctxDone
               /\ (i <= MaxRetries /\ i = Len(results) /\ ~ctxDone)
                     => pc \in {"backoff", "attempt", "inflight"}
               /\ Len(requests) > i => requests[i + 1] = requests[i]
               /\ (i = MaxRetries + 1 /\ pc = "done")
                     => retErr.kind = "NetworkError" /\ retErr.cause = "unmarshal"

\* the POST that got a 200 with an undecodable body has been sent again
C29_Witness ==
    /\ Len(results) = 1
    /\ results[1].http = 200
    /\ results[1].kind = "NetworkError"
    /\ Len(requests) = 2
    /\ requests[2].method = "POST"
    /\ pc = "inflight"

(***************************************************************************)
(* C30.                                                                    *)
(***************************************************************************)
\* C30: the attempt after a 429 with Retry-After = r > 0 starts r seconds
\* plus the whole backoff of that attempt after the 429, r + 2^i seconds for
\* attempt i + 1; after a 429 whose Retry-After is absent, zero, negative or
\* not an integer it starts after the backoff alone.
C30_RetryAfterThenBackoff ==
    (/\ pc = "inflight"
     /\ results # <<>>
     /\ LastEntry.http = 429)
        => /\ attempt = Len(results)
           /\ attempt <= MaxRetries
           /\ LastEntry.retryAfter > 0 => gap >= LastEntry.retryAfter + 2 ^ (attempt - 1)
           /\ LastEntry.retryAfter <= 0 => gap = 2 ^ (attempt - 1)

\* attempt 2 starts 2 + 2 seconds after attempt 1 got a 429 with Retry-After: 2
C30_Witness ==
    /\ pc = "inflight"
    /\ Len(results) = 2
    /\ LastEntry.http = 429
    /\ LastEntry.retryAfter = 2
    /\ attempt = 2
    /\ gap = 4

\* attempt 1 starts 1 second after attempt 0 got a 429 with Retry-After: -1
C30_WitnessNegative ==
    /\ pc = "inflight"
    /\ Len(results) = 1
    /\ LastEntry.http = 429
    /\ LastEntry.retryAfter < 0
    /\ gap = 1

(***************************************************************************)
(* C21.                                                                    *)
(***************************************************************************)
\* C21: the Error() text of every variant starts with "sendly: ";
\* RateLimitError renders "rate limit exceeded, retry after N seconds"
\* exactly when RetryAfter > 0 and its message otherwise; ValidationError and
\* NetworkError render the text of the wrapped cause exactly when they wrap
\* one, and Unwrap returns that cause (nil when there is none).
C21_ErrorTexts ==
    errPc = "rendered" =>
        /\ errText # <<>>
        /\ Head(errText) = "sendly: "
        /\ errVal.kind = "RateLimitError" =>
              /\ errVal.retryAfter > 0 <=>
                    errText = <<"sendly: ", "rate limit exceeded, retry after ",
                                ToString(errVal.retryAfter), " seconds">>
              /\ errVal.retryAfter <= 0 <=>
                    errText = <<"sendly: ", "rate limit exceeded: ", errVal.message>>
        /\ errVal.kind \in {"ValidationError", "NetworkError"} =>
              /\ errCause = errVal.cause
              /\ errVal.cause # "none" <=>
                    errText[Len(errText)] = CauseText(errVal.cause)
              /\ errVal.cause = "none" =>
                    errText[Len(errText)] = errVal.message
        /\ errVal.kind = "NetworkError" => errText[3] = errVal.message

\* a RateLimitError with RetryAfter = 2 and a message
C21_Witness ==
    /\ errPc = "rendered"
    /\ errVal.kind = "RateLimitError"
    /\ errVal.retryAfter = 2
    /\ errVal.message = "boom"
    /\ errText = <<"sendly: ", "rate limit exceeded, retry after ", "2", " seconds">>

\* a ValidationError that wraps the error of json.Marshal
C21_WitnessCause ==
    /\ errPc = "rendered"
    /\ errVal.kind = "ValidationError"
    /\ errCause = "marshal"
    /\ errText = <<"sendly: ", "validation error: ", "json: unsupported type: chan int">>

(***************************************************************************)
(* C23.                                                                    *)
(***************************************************************************)
\* the endpoint table of the specification: the verb of each operation of
\* MessagesService
TableVerb(o) ==
    CASE o \in {"Send", "Schedule", "SendBatch"} -> "POST"
      [] o = "CancelScheduled" -> "DELETE"
      [] OTHER -> "GET"

\* the endpoint table: the path of each operation of MessagesService up to
\* its {id} or its query
TablePath(o) ==
    CASE o \in {"Send", "List"} -> <<"/", "messages">>
      [] o = "Get" -> <<"/", "messages", "/">>
      [] o = "Schedule" -> <<"/", "messages", "/", "schedule">>
      [] o = "ListScheduled" -> <<"/", "messages", "/", "scheduled">>
      [] o \in {"GetScheduled", "CancelScheduled"} -> <<"/", "messages", "/", "scheduled", "/">>
      [] o = "SendBatch" -> <<"/", "messages", "/", "batch">>
      [] o = "GetBatch" -> <<"/", "messages", "/", "batch", "/">>
      [] OTHER -> <<"/", "messages", "/", "batches">>

\* the endpoint table: the query keys of each list operation
TableKeys(o) ==
    IF o = "List" THEN {"limit", "offset", "status", "to"} ELSE {"limit", "offset", "status"}

\* the path is one of the account row of the table: /account, /credits,
\* /credits/transactions, /keys, /keys/{id}, /keys/{id}/usage (whatever the
\* identifier contributes)
InAccountRow(path) ==
    LET p == Before(path, {"?"})
    IN  \/ p \in {<<"/", "account">>, <<"/", "credits">>,
                  <<"/", "credits", "/", "transactions">>, <<"/", "keys">>}
        \/ HasPrefix(p, <<"/", "keys", "/">>)

\* the verb and the path handed to Client.request are those of the table
MatchesTable ==
    IF op \in {"Send", "Schedule", "SendBatch"}
    THEN opMethod = TableVerb(op) /\ opPath = TablePath(op)
    ELSE IF op \in {"List", "ListScheduled", "ListBatches"}
    THEN /\ opMethod = TableVerb(op)
         /\ Before(opPath, {"?"}) = TablePath(op)
         /\ \A i \in 1..Len(opPath) :
                opPath[i] \in {"limit", "offset", "status", "to"} => opPath[i] \in TableKeys(op)
    ELSE IF op \in IdOps
    THEN /\ opMethod = TableVerb(op)
         /\ HasPrefix(opPath, TablePath(op))
         /\ Count(SubSeq(opPath, Len(TablePath(op)) + 1, Len(opPath)), "/") = 0
    ELSE /\ opMethod \in {"GET", "POST", "DELETE"}
         /\ InAccountRow(opPath)

\* C23 (as stated; CreateAPIKey and RevokeAPIKey violate it): every operation
\* hands Client.request the verb and the path of the endpoint table, and
\* every AccountService operation targets /account, /credits,
\* /credits/transactions, /keys, /keys/{id} or /keys/{id}/usage.
C23_EndpointTable ==
    opMethod # "" => MatchesTable

\* the same without CreateAPIKey and RevokeAPIKey: holds of the code
C23_EndpointTableOtherOps ==
    (opMethod # "" /\ op \notin {"Account.CreateAPIKey", "Account.RevokeAPIKey"})
        => MatchesTable

(***************************************************************************)
(* C24.                                                                    *)
(***************************************************************************)
\* C24 (as stated): VerifySignature returns true if and only if the
\* signature is "sha256=" followed by the hex HMAC-SHA256 of the payload
\* under the secret, for all inputs; so the signature GenerateSignature
\* makes for a payload and a secret always verifies.
C24_VerifyIffExpected ==
    whPc = "verified" =>
        (whOut <=> whSignature = GenerateSignature(whPayload, whSecret))

\* C24 amended: VerifySignature returns true if and only if payload and
\* secret are not empty and the signature is "sha256=" followed by the hex
\* HMAC-SHA256 of the payload under the secret; a signature of another
\* length or content is rejected, and so is every signature of an empty
\* payload or under an empty secret.
C24_VerifyIffExpectedNonEmpty ==
    whPc = "verified" =>
        /\ whOut <=> /\ whPayload # ""
                     /\ whSecret # ""
                     /\ whSignature = GenerateSignature(whPayload, whSecret)
        /\ Len(whSignature) # Len(GenerateSignature(whPayload, whSecret)) => ~whOut

\* the signature GenerateSignature makes for a payload and a secret verifies
C24_Witness ==
    /\ whPc = "verified"
    /\ whPayload = "{}"
    /\ whSecret = "whsec_a"
    /\ whSignature = GenerateSignature("{}", "whsec_a")
    /\ whOut

\* the signature of the empty payload is rejected
C24_WitnessEmpty ==
    /\ whPc = "verified"
    /\ whPayload = ""
    /\ whSecret = "whsec_a"
    /\ whSignature = GenerateSignature("", "whsec_a")
    /\ ~whOut

(***************************************************************************)
(* C27.                                                                    *)
(***************************************************************************)
\* the word is negative, is zero
IsNegative(v) == v[Len(v)] >= 128
IsZero(v) == \A i \in 1..Len(v) : v[i] = 0

\* a < b as signed words of one width
LessThan(a, b) ==
    IF IsNegative(a) # IsNegative(b) THEN IsNegative(a)
    ELSE \E i \in 1..Len(a) : /\ a[i] < b[i]
                              /\ \A j \in (i + 1)..Len(a) : a[j] = b[j]

\* the signed word v in w bytes
SignExtend(v, w) ==
    [i \in 1..w |-> IF i <= Len(v) THEN v[i] ELSE IF IsNegative(v) THEN 255 ELSE 0]

\* the backoff of the current attempt is 2^(attempt-1) seconds, not wrapped:
\* positive, above the backoff of the attempt before, and the value the
\* same expression has in words twice as wide
BackoffIsExact ==
    /\ ~IsNegative(bkDelay)
    /\ ~IsZero(bkDelay)
    /\ bkAttempt >= 2 => LessThan(bkPrev, bkDelay)
    /\ SignExtend(bkDelay, 2 * WordBytes) = BackoffIn(bkAttempt, 2 * WordBytes)

\* C27 (as stated; violated from attempt 35 on): no wait precedes attempt 0
\* and, for every MaxRetries and every attempt i from 1 to MaxRetries, the
\* backoff computed before attempt i is 2^(i-1) seconds: positive, strictly
\* increasing in i, with no wrap-around of the shift or the multiplication.
C27_BackoffNeverWraps ==
    /\ bkAttempt = 0 => IsZero(bkDelay)
    /\ bkAttempt >= 1 => BackoffIsExact

\* the same for the attempts 1 to 34: holds of the code
C27_BackoffExactUpTo34 ==
    /\ bkAttempt = 0 => IsZero(bkDelay)
    /\ bkAttempt \in 1..34 => BackoffIsExact

\* the backoff computed for attempt 35 is negative
C27_Wrapped ==
    /\ bkAttempt = 35
    /\ IsNegative(bkDelay)
    /\ ~IsNegative(bkPrev)


\* in the executor, for the budgets of Spec: the first request of a call is
\* sent with no backoff, and the request of attempt i >= 1 is sent 2^(i-1)
\* seconds after the failure before it (after the Retry-After wait, when
\* there is one)
C27_WaitsInExecutor ==
    pc = "inflight" =>
        /\ results = <<>> => attempt = 0 /\ gap = 0
        /\ results # <<>> =>
              /\ attempt = Len(results)
              /\ gap = 2 ^ (attempt - 1)
                         + (IF LastEntry.kind = "RateLimitError" /\ LastEntry.retryAfter > 0
                            THEN LastEntry.retryAfter ELSE 0)

(***************************************************************************)
(* C31.                                                                    *)
(***************************************************************************)
\* the last attempt of the budget has failed with a retryable error
LastAttemptFailed ==
    /\ MaxRetries >= 0
    /\ Len(results) = MaxRetries + 1
    /\ LastEntry.kind \in RetryableKinds

\* C31 (as stated; the Retry-After wait after the last attempt violates it):
\* when attempt MaxRetries fails with a retryable error the call returns
\* that error with no further wait: the executor is never in a wait after
\* that attempt, the call returns in the second the attempt ended, and what
\* it returns is that attempt's error, whatever happens to the context.
C31_NoWaitAfterLastAttempt ==
    LastAttemptFailed =>
        /\ pc \notin {"rawait", "backoff"}
        /\ pc = "done"
        /\ sinceResp = 0
        /\ retErr = lastResult

\* the same for a last attempt that did not get a 429 with a positive
\* Retry-After: holds of the code
C31_NoWaitUnlessRetryAfter ==
    (/\ LastAttemptFailed
     /\ ~(LastEntry.kind = "RateLimitError" /\ LastEntry.retryAfter > 0))
        => /\ pc = "done"
           /\ sinceResp = 0
           /\ retErr = lastResult

\* MaxRetries = 0, a 429 with Retry-After: 2, and the call is still waiting
C31_StillWaiting ==
    /\ MaxRetries = 0
    /\ Len(results) = 1
    /\ LastEntry.http = 429
    /\ LastEntry.retryAfter = 2
    /\ pc = "rawait"
    /\ sinceResp = 1

(***************************************************************************)
(* C32.                                                                    *)
(***************************************************************************)
\* Client.request has returned nil
ReturnedNil == RequestReturned /\ retErr = NoErr

\* C32 (as stated; a negative MaxRetries violates it): Client.request
\* returns nil only if at least one HTTP attempt was made and the last one
\* got a status below 400, for every MaxRetries.
C32_NilOnlyAfterSuccess ==
    ReturnedNil =>
        /\ httpAttempts >= 1
        /\ results # <<>>
        /\ LastEntry.http \in 1..399

\* the same for MaxRetries >= 0: holds of the code
C32_NilOnlyAfterSuccessNonNegative ==
    (ReturnedNil /\ MaxRetries >= 0) =>
        /\ httpAttempts >= 1
        /\ results # <<>>
        /\ LastEntry.http \in 1..399

\* MaxRetries = -1: Send returned a result and no error, nothing was sent
C32_NilWithoutAttempt ==
    /\ MaxRetries < 0
    /\ ReturnedNil
    /\ sendResult = "resp"
    /\ httpAttempts = 0
    /\ requests = <<>>
    /\ permits = 1

(***************************************************************************)
(* C33.                                                                    *)
(***************************************************************************)
\* C33: with MaxRetries = N >= 0 a call makes at most N + 1 HTTP attempts,
\* whatever the responses and transport failures; and when every attempt
\* and every wait completes, a call whose context is never cancelled
\* eventually returns.
C33_BoundedAndTerminates ==
    /\ [](MaxRetries >= 0 => /\ httpAttempts <= MaxRetries + 1
                             /\ Len(results) <= MaxRetries + 1)
    /\ (pc = "request") ~> (pc = "done" \/ ctxDone)

\* a call that used its whole budget and returned, never cancelled
C33_Witness ==
    /\ pc = "done"
    /\ ~ctxDone
    /\ MaxRetries = MaxBudget
    /\ httpAttempts = MaxBudget + 1
    /\ retErr.kind = "NetworkError"


(***************************************************************************)
(* C34.                                                                    *)
(***************************************************************************)
\* every request the call sent is the request of attempt 0
SameRequestEveryAttempt ==
    \A i \in 1..Len(requests) :
        /\ requests[i].method = requests[1].method
        /\ requests[i].path = requests[1].path
        /\ requests[i].body = requests[1].body
        /\ requests[i].method = "POST"
        /\ requests[i].path = SendPath
        /\ requests[i].body = Marshal(reqBody)

\* C34: every retry attempt of a call sends the method, path and JSON body
\* of attempt 0, whatever the failed attempts returned, and once the call
\* has returned no further request is sent for it.
C34_RetriesRepeatRequest ==
    /\ [](SameRequestEveryAttempt)
    /\ [][pc = "done" => /\ requests' = requests
                         /\ httpAttempts' = httpAttempts]_vars

\* a call that sent three requests, after a 429 and a 500, and returned
C34_Witness ==
    /\ pc = "done"
    /\ Len(requests) = 3
    /\ Len(results) = 3
    /\ results[1].http = 429
    /\ results[2].http = 500
    /\ requests[3].body = "{\"to\":\"+1234567890\",\"text\":\"hi\"}"
    /\ requests[3] = requests[1]


(***************************************************************************)
(* C35.                                                                    *)
(***************************************************************************)
\* the orders in which n options can be passed
Orders(n) == {p \in [1..n -> 1..n] : \A i, j \in 1..n : p[i] = p[j] => i = j}

\* opts passed in the order p
Reordered(opts, p) == [i \in 1..Len(opts) |-> opts[p[i]]]

\* no option is given twice
DistinctOptions(opts) ==
    \A i, j \in 1..Len(opts) : opts[i].name = opts[j].name => i = j

\* what NewClient(cfgKey, opts...) leaves behind: whether it panicked, the
\* fields of the client, the Timeout of the http.Client it points to (-1
\* for nil), and the Timeout of the caller's http.Client
Configuration(opts) ==
    LET b == ApplyOptions(MkBuild(DefaultClient(cfgKey), InitialHeap, FALSE), opts)
    IN  IF b.panicked THEN [panicked |-> TRUE]
        ELSE [panicked |-> FALSE,
              client |-> b.client,
              httpTimeout |-> IF b.client.HTTPClient = "nil" THEN 0 - 1
                              ELSE b.heap[b.client.HTTPClient],
              callerTimeout |-> b.heap["custom"]]

WithTimeoutGiven(opts) == \E i \in 1..Len(opts) : opts[i].name = "WithTimeout"

WithHTTPClientGiven(opts) == \E i \in 1..Len(opts) : opts[i].name = "WithHTTPClient"

\* every order of cfgOpts gives the configuration that was built
SameInEveryOrder ==
    \A p \in Orders(Len(cfgOpts)) :
        Configuration(Reordered(cfgOpts, p)) = Configuration(cfgOpts)

\* C35: applying client options is order-independent: every permutation of
\* a set of options yields the same configuration, HTTPClient.Timeout equals
\* Timeout whenever WithTimeout was given, also next to WithHTTPClient, and
\* the caller's http.Client is not modified.
C35_OptionsOrderIndependent ==
    (cfgPc # "input" /\ DistinctOptions(cfgOpts)) =>
        /\ SameInEveryOrder
        /\ cfgPc = "built"
        /\ WithTimeoutGiven(cfgOpts) =>
               /\ cfgClient.HTTPClient # "nil"
               /\ cfgHeap[cfgClient.HTTPClient] = cfgClient.Timeout
        /\ cfgHeap["custom"] = CustomTimeout

\* without WithHTTPClient among the options, the order does not matter and
\* the two timeouts agree
C35_OrderIndependentWithoutHTTPClient ==
    (cfgPc # "input" /\ DistinctOptions(cfgOpts) /\ ~WithHTTPClientGiven(cfgOpts)) =>
        /\ SameInEveryOrder
        /\ cfgPc = "built"
        /\ cfgHeap[cfgClient.HTTPClient] = cfgClient.Timeout
        /\ cfgHeap["custom"] = CustomTimeout

\* NewClient(key, WithTimeout(60), WithHTTPClient(custom)): the client has
\* Timeout 60 and an http.Client whose Timeout is still its own
C35_TimeoutsDiffer ==
    /\ cfgPc = "built"
    /\ cfgOpts = <<MkOption("WithTimeout", 60), MkOption("WithHTTPClient", "custom")>>
    /\ cfgClient.Timeout = 60
    /\ cfgClient.HTTPClient = "custom"
    /\ cfgHeap["custom"] = CustomTimeout
    /\ Configuration(<<MkOption("WithHTTPClient", "custom"), MkOption("WithTimeout", 60)>>).httpTimeout = 60


(***************************************************************************)
(* C36.                                                                    *)
(***************************************************************************)
\* the limiter's rate: rate.Every(time.Second) is one token per second
RatePerSecond == 1 \div LimiterDelay

\* the client is under sustained load in the current second: the burst went
\* out in second 0, calls were admitted in every second since, every
\* goroutine that can run has run, and a call is still waiting for its permit
SustainedLoad ==
    /\ limClock >= 1
    /\ MaxRetries = 0
    /\ limSent[0] >= LimiterBurst
    /\ \A t \in 1..(limClock - 1) : limSent[t] >= 1
    /\ \A s \in Slots : \/ limCalls[s].pc = "idle"
                        \/ limCalls[s].pc \in {"limiter", "backoff"} /\ limCalls[s].timer > 0
    /\ \E s \in Slots : limCalls[s].pc = "limiter" /\ limCalls[s].timer > 0

\* C36: the limiter of NewClient allows 10 requests per second: with calls
\* always waiting, the client admits 10 calls in every second of sustained
\* load after the initial burst.  (Without retries every admitted call
\* sends exactly one request, in the second of its admission.)
C36_TenAdmittedPerSecond ==
    SustainedLoad => limSent[limClock] = 10

\* what the limiter of the code admits under sustained load: one call in
\* every second after the burst
C36_OneAdmittedPerSecond ==
    SustainedLoad => limSent[limClock] = RatePerSecond

\* second 1 of a saturated client: ten calls went out in second 0, one in
\* second 1, and the next one waits
C36_OneInSecondOne ==
    /\ SustainedLoad
    /\ limClock = 1
    /\ limSent[0] = 10
    /\ limSent[1] = 1


(***************************************************************************)
(* C37.                                                                    *)
(***************************************************************************)
\* the call was made with a body that cannot be serialized and has gone
\* past the limiter
UnserializableCallReturned ==
    /\ ~Marshalable(reqBody)
    /\ pc = "done"
    /\ permits >= 1

\* what C37 says of such a call
MarshalFailureEndsCall ==
    /\ retErr.kind = "ValidationError"
    /\ retErr.cause = "marshal"
    /\ retErr.message = "failed to marshal request body"
    /\ IsValidationError(retErr)
    /\ Unwrap(retErr) = "marshal"
    /\ httpAttempts = 0
    /\ requests = <<>>
    /\ Len(results) = 1
    /\ attempt = 0
    /\ permits = 1

\* C37: a call whose body cannot be serialized to JSON returns a
\* ValidationError wrapping the serialization error, sends no HTTP request
\* and is not retried, whatever MaxRetries is; its permit stays taken.
C37_MarshalFailureIsTerminal ==
    UnserializableCallReturned => MarshalFailureEndsCall

\* the same for the retry budgets that let the loop run once, and whatever
\* the context: marshalling comes before the request is built
C37_MarshalFailureIsTerminalNonNegative ==
    (UnserializableCallReturned /\ MaxRetries >= 0) => MarshalFailureEndsCall

\* WithMaxRetries(-1): the call returns nil and the body was never
\* marshalled
C37_NilForUnserializable ==
    /\ UnserializableCallReturned
    /\ ~ctxDone
    /\ MaxRetries < 0
    /\ retErr = NoErr
    /\ results = <<>>

\* the largest budget: one doRequest, no request, the ValidationError
C37_Witness ==
    /\ UnserializableCallReturned
    /\ MaxRetries = MaxBudget
    /\ reqBody.metadata = "NaN"
    /\ MarshalFailureEndsCall


(***************************************************************************)
(* C38.                                                                    *)
(***************************************************************************)
\* the payload is a JSON object (or null) whose id, type and created_at
\* are strings where present
PayloadParses ==
    LET v == JSONValue(whPayload)
    IN  \/ v.kind = "null"
        \/ /\ v.kind = "object"
           /\ \A i \in 1..Len(v.members) :
                  v.members[i][1] \in {"id", "type", "created_at"}
                      => v.members[i][2].t = "string"

\* the JSON object of the payload gives key a non-empty string
HasNonEmpty(key) ==
    LET v == JSONValue(whPayload)
    IN  /\ v.kind = "object"
        /\ \E i \in 1..Len(v.members) :
               /\ v.members[i][1] = key
               /\ v.members[i][2].t = "string"
               /\ v.members[i][2].v # ""

SignatureVerifies == VerifySignature(whPayload, whSignature, whSecret)

\* C38: ParseEvent returns an event only when the signature verifies and
\* the payload parses with non-empty id, type and created_at; a failed
\* signature check always yields ErrInvalidSignature and a nil event before
\* the payload is parsed, and every failure returns a nil event.
C38_EventOnlyWhenVerifiedAndValid ==
    whPc = "parsed" =>
        /\ ~whResult.event.isNil =>
               /\ SignatureVerifies
               /\ PayloadParses
               /\ HasNonEmpty("id") /\ HasNonEmpty("type") /\ HasNonEmpty("created_at")
               /\ whResult.err = NoErr
        /\ ~SignatureVerifies =>
               /\ whResult.err = ErrInvalidSignature
               /\ whResult.event.isNil
               /\ ~whResult.unmarshalled
        /\ whResult.err # NoErr => whResult.event.isNil
        /\ whResult.err = NoErr => ~whResult.event.isNil

\* a signed event without created_at: parsed, and refused for its structure
C38_Witness ==
    /\ whPc = "parsed"
    /\ whPayload = PayloadNoCreatedAt
    /\ whSignature = GenerateSignature(PayloadNoCreatedAt, whSecret)
    /\ whResult.unmarshalled
    /\ whResult.err = ErrStructure
    /\ whResult.event.isNil

\* a signed complete event is returned
C38_WitnessEvent ==
    /\ whPc = "parsed"
    /\ whPayload = PayloadEvent
    /\ whResult.err = NoErr
    /\ whResult.event.ID = "evt_1"
    /\ whResult.event.CreatedAt = "2024-01-01T00:00:00Z"

\* a complete event under a signature of another secret
C38_WitnessBadSignature ==
    /\ whPc = "parsed"
    /\ whPayload = PayloadEvent
    /\ whSecret = "whsec_a"
    /\ whSignature = GenerateSignature(PayloadEvent, "whsec_b")
    /\ whResult = MkParseResult(NilEvent, ErrInvalidSignature, FALSE)

====
